---- MODULE Spec2Model ----
(***************************************************************************)
(* Model of the Serbian fiscal receipt pipeline:                           *)
(*   FiscalParser._parse_serbian_number     (src/parser/fiscal_parser.py)  *)
(*   FiscalParser._parse_html_content and the item strategies              *)
(*   SerbianToRussianConverter.convert                                     *)
(*   Item.validate_sum, Receipt.validate_total_sum (models/fiscal_models)  *)
(*                                                                         *)
(* Texts are sequences of one-character strings.  Decimal values are       *)
(* records with m, e standing for m / 10^e, normalised (no trailing zero    *)
(* in the fraction), so that record equality is numeric equality, as for   *)
(* Python's Decimal.                                                       *)
(***************************************************************************)
EXTENDS Integers, Sequences, FiniteSets, TLC

VARIABLES
    numText,      \* argument of _parse_serbian_number
    numResult,    \* what the call returned (NotRun before the call)
    itemArgs,     \* keyword arguments of Item(...)
    itemResult,   \* the Item built, or the error raised (NotRun before)
    now,          \* the wall clock, datetime.now()
    serbian_data, \* the SerbianFiscalData held by the converter (NoData before)
    fiscal_data,  \* outcome of the first convert() on serbian_data
    fiscal_again, \* outcome of a second convert() on the same serbian_data
    html,         \* the rendered page handed to _parse_html_content (NoPage before)
    strategies,   \* the item strategies _extract_items_from_table ran, in order
    serbian_again, \* outcome of a second _parse_html_content on the same html
    calls,        \* the parse_serbian_fiscal_url invocations, each with its position
    drivers,      \* every webdriver.Chrome created so far, in order of creation
    mode,         \* which failures the environment of the invocations produces
    debug_file,   \* debug_<date>.html in the log directory: its content and writers
    request_logs, \* rows of the RequestLog table, counted by (user_id, status, day)
    message_logs, \* rows of the MessageLog table, counted by (sender_user_id, message_type)
    users,        \* the User table: is_active of each user, or that the row is absent
    handler,      \* the bot handler the dispatcher is running, with its position
    sent,         \* messages delivered to the administrator's chat, counted by sender
    today,        \* date.today()
    db            \* whether database sessions can raise

vars == <<numText, numResult, itemArgs, itemResult,
          now, serbian_data, fiscal_data, fiscal_again, html, strategies, serbian_again,
          calls, drivers, mode, debug_file,
          request_logs, message_logs, users, handler, sent, today, db>>

numberVars  == <<numText, numResult>>
itemVars    == <<itemArgs, itemResult>>
convertVars == <<serbian_data, fiscal_data, fiscal_again>>
entryVars   == <<calls, drivers, mode, debug_file>>
pageVars    == <<html, strategies, serbian_again>>
botVars     == <<request_logs, message_logs, users, handler, sent, today, db>>

\* Values of different kinds are records told apart by their fields.
NotRun == [kind |-> "not_run"]

-----------------------------------------------------------------------------
(* Characters and texts *)

AsciiDigits == {"0", "1", "2", "3", "4", "5", "6", "7", "8", "9"}

\* "u3" stands for a non-ASCII Unicode decimal digit (category Nd) of value 3,
\* such as ARABIC-INDIC DIGIT THREE: Python's \d matches it and Decimal reads it.
UnicodeDigits == {"u3"}

Whitespace == {" "}

DigitValue(c) ==
    CASE c = "0" -> 0 [] c = "1" -> 1 [] c = "2" -> 2 [] c = "3" -> 3
      [] c = "4" -> 4 [] c = "5" -> 5 [] c = "6" -> 6 [] c = "7" -> 7
      [] c = "8" -> 8 [] c = "9" -> 9 [] c = "u3" -> 3

\* The characters the bounded texts are built from.
TextChars == {"1", "5", ".", ",", "-", " ", "a", "u3"}

\* Longest enumerated text.
MaxLen == 3

TextsUpTo(n) == UNION {[1..k -> TextChars] : k \in 0..n}

\* Texts of the repository's tests (tests/test_parser.py:102-136).
NamedTexts ==
    { <<"1", ".", "8", "3", "9", ",", "9", "6">>,
      <<"0", ",", "5", "0">>,
      <<"1", ".", "0", "0", "0", ",", "0", "0">>,
      <<"1", ".", "2", ".", "3", ",", "4", "5">>,
      <<"1", ",", "2", ",", "3", ".", "4", "5">>,
      <<"1", ".", "8", "3", "9", ",", "9", "6", " ", "R", "S", "D">>,
      <<"a", "b", "c">>,
      <<" ", " ", " ">> }

NumberInputs == TextsUpTo(MaxLen) \cup NamedTexts

-----------------------------------------------------------------------------
(* Python string operations *)

RECURSIVE LStrip(_)
LStrip(s) ==
    IF s # <<>> /\ Head(s) \in Whitespace THEN LStrip(Tail(s)) ELSE s

RECURSIVE RStrip(_)
RStrip(s) ==
    IF s # <<>> /\ s[Len(s)] \in Whitespace
    THEN RStrip(SubSeq(s, 1, Len(s) - 1))
    ELSE s

\* str.strip()
Strip(s) == RStrip(LStrip(s))

\* str.replace(old, "") for a one-character old
Remove(s, old) == LET Keep(c) == c # old IN SelectSeq(s, Keep)

\* str.replace(old, new) for one-character old and new
Replace(s, old, new) == [i \in 1..Len(s) |-> IF s[i] = old THEN new ELSE s[i]]

\* re.sub(r"[^\d\.\-]", "", s): \d of a str pattern is any Unicode decimal digit
IsReDigit(c) == c \in AsciiDigits \cup UnicodeDigits

ReSubNonNumeric(s) ==
    LET Keep(c) == IsReDigit(c) \/ c = "." \/ c = "-" IN SelectSeq(s, Keep)

-----------------------------------------------------------------------------
(* decimal.Decimal(str) *)

RECURSIVE Pow10(_)
Pow10(n) == IF n = 0 THEN 1 ELSE 10 * Pow10(n - 1)

RECURSIVE Normalize(_, _)
Normalize(m, e) ==
    IF m = 0 THEN [kind |-> "Decimal", m |-> 0, e |-> 0]
    ELSE IF e > 0 /\ m % 10 = 0 THEN Normalize(m \div 10, e - 1)
    ELSE [kind |-> "Decimal", m |-> m, e |-> e]

Zero == [kind |-> "Decimal", m |-> 0, e |-> 0]

Dec(m, e) == Normalize(m, e)

RECURSIVE DigitsValue(_)
DigitsValue(s) ==
    IF s = <<>> THEN 0
    ELSE 10 * DigitsValue(SubSeq(s, 1, Len(s) - 1)) + DigitValue(s[Len(s)])

CountChar(s, c) == Cardinality({i \in 1..Len(s) : s[i] = c})

\* Position of the first c in s, Len(s) + 1 when there is none.
RECURSIVE IndexOf(_, _, _)
IndexOf(s, c, i) ==
    IF i > Len(s) THEN i ELSE IF s[i] = c THEN i ELSE IndexOf(s, c, i + 1)

\* The Decimal constructor on a text of digits, "." and "-":
\* [sign] digits ["." digits] | [sign] "." digits, with at least one digit;
\* anything else raises InvalidOperation.
DecimalAccepts(s) ==
    LET body == IF s # <<>> /\ Head(s) = "-" THEN Tail(s) ELSE s IN
    /\ \A i \in 1..Len(body) : IsReDigit(body[i]) \/ body[i] = "."
    /\ CountChar(body, ".") <= 1
    /\ \E i \in 1..Len(body) : IsReDigit(body[i])

DecimalValue(s) ==
    LET neg    == s # <<>> /\ Head(s) = "-"
        body   == IF neg THEN Tail(s) ELSE s
        dot    == IndexOf(body, ".", 1)
        digits == Remove(body, ".")
        frac   == IF dot > Len(body) THEN 0 ELSE Len(body) - dot
        mag    == DigitsValue(digits)
    IN  Dec(IF neg THEN -mag ELSE mag, frac)

InvalidOperation == [kind |-> "raised", exc |-> "InvalidOperation"]

\* Decimal(s): the value, or the exception it raises
DecimalCtor(s) == IF DecimalAccepts(s) THEN DecimalValue(s) ELSE InvalidOperation

-----------------------------------------------------------------------------
(* FiscalParser._parse_serbian_number *)

\* A slip in line 618: the comma is turned into a dot before the dots go.
CleanSeparatorsCommaFirst(text) == Remove(Replace(text, ",", "."), ".")

\* cleaned_text of line 618: dots removed, then commas turned into dots
CleanSeparators(text) == Replace(Remove(text, "."), ",", ".")

\* Lines 629-633 without the except clause: the exception escapes.
TryDecimalNoExcept(cleaned) == DecimalCtor(cleaned)

\* lines 629-633: try: return Decimal(cleaned_text) except Exception: return 0
TryDecimal(cleaned) ==
    IF DecimalCtor(cleaned) = InvalidOperation THEN Zero ELSE DecimalCtor(cleaned)

ParseSerbianNumber(text) ==
    IF text = <<>> THEN Zero
    ELSE LET stripped == Strip(text)
             cleaned  == ReSubNonNumeric(CleanSeparators(stripped))
         IN  IF cleaned = <<>> \/ cleaned = <<"-">> \/ cleaned = <<".">>
             THEN Zero
             ELSE TryDecimal(cleaned)

-----------------------------------------------------------------------------
(* models/fiscal_models.py: Item *)

\* Tolerance of Item.validate_sum, in minor units.
ItemTolerance == 5

Abs(x) == IF x < 0 THEN -x ELSE x

ValidationError(where) == [kind |-> "raised", exc |-> "ValidationError", by |-> where]

\* validate_sum with >= in place of >: the boundary is rejected.
ItemSumAcceptedStrict(quantity, price, sum) ==
    ~ (Abs(sum - quantity * price) >= ItemTolerance)

\* Item.validate_sum: raises unless |sum - quantity * price| <= 5
ItemSumAccepted(quantity, price, sum) ==
    ~ (Abs(sum - quantity * price) > ItemTolerance)

\* Item(name=..., quantity=..., price=..., sum=..., nds=..., paymentType=..., productType=...)
NewItem(name, quantity, price, sum, nds, paymentType, productType) ==
    IF ItemSumAccepted(quantity, price, sum)
    THEN [kind |-> "Item", name |-> name, quantity |-> quantity, price |-> price,
          sum |-> sum, nds |-> nds, paymentType |-> paymentType,
          productType |-> productType]
    ELSE ValidationError("Item.validate_sum")

-----------------------------------------------------------------------------
(* The wall clock *)

\* First reading of the wall clock, later than every document timestamp.
ClockStart == 20

\* datetime.now(): the wall clock has microseconds, a parsed timestamp has none.
WallClock(clock) == [sec |-> ClockStart + clock, usec |-> 1]

-----------------------------------------------------------------------------
(* Python float arithmetic of convert(), in integers *)

\* Integer division rounding toward zero, as int() truncates.
TruncDiv(a, b) == IF a >= 0 THEN a \div b ELSE -((-a) \div b)

RECURSIVE Log2Floor(_)
Log2Floor(k) == IF k < 2 THEN 0 ELSE 1 + Log2Floor(k \div 2)

\* Least u >= 1 with k * 2^u >= 100, for 0 < k < 100.
RECURSIVE ShiftTo100(_)
ShiftTo100(k) == IF 2 * k >= 100 THEN 1 ELSE 1 + ShiftTo100(2 * k)

RECURSIVE Pow2Mod100(_)
Pow2Mod100(s) == IF s = 0 THEN 1 ELSE (2 * Pow2Mod100(s - 1)) % 100

\* int(float(x) * 100) for x = k / 100, k >= 0, in IEEE-754 binary64 with
\* round-to-nearest-even.  float(x) = m / 2^s is the nearest double to k / 100,
\* m = round(k * 2^s / 100) with 2^52 <= m < 2^53, so float(x) * 100 is exactly
\* k + r / 2^s with r = 100 * m - k * 2^s, |r| <= 50.  With 2^j <= k < 2^(j+1)
\* and 2^t <= k / 100 < 2^(t+1), s = 52 - t and r / 2^s is r / 2^(j-t) units in
\* the last place of k, j - t being 6 or 7.  The product rounds below k exactly
\* when j - t = 6 and r < -32, that is when k * 2^s mod 100 lies in (32, 50);
\* int() then truncates to k - 1.  Otherwise the result is k.
FloatCents(k) ==
    IF k = 0 THEN 0
    ELSE LET j == Log2Floor(k)
             t == IF k >= 100 THEN Log2Floor(k \div 100) ELSE -ShiftTo100(k)
             s == 52 - t
             low == ((k % 100) * Pow2Mod100(s)) % 100
         IN  IF j - t = 6 /\ low > 32 /\ low < 50 THEN k - 1 ELSE k

\* int(float(d) * 100) for a Decimal d (lines 761, 762, 777, 790).  With more
\* than two fraction digits the product is no integer, the rounding error is
\* far below its distance to one, and int() truncates it.
FloatTimes100ToInt(d) ==
    IF d.e <= 2
    THEN LET k == Abs(d.m) * Pow10(2 - d.e)
         IN  IF d.m < 0 THEN -FloatCents(k) ELSE FloatCents(k)
    ELSE TruncDiv(d.m, Pow10(d.e - 2))

\* int(float(d)) for a Decimal d (line 760)
FloatToInt(d) == TruncDiv(d.m, Pow10(d.e))

\* int(item.sum * 0.1) and int(item.sum * 0.2) (lines 801, 803): 0.1 and 0.2
\* are the doubles just above 1/10 and 1/5, the product stays on the same side
\* of every integer, and int() truncates toward zero.
FloatTenth(n) == TruncDiv(n, 10)
FloatFifth(n) == TruncDiv(n, 5)

-----------------------------------------------------------------------------
(* models/fiscal_models.py: Receipt, and datetime.strftime *)

\* Tolerance of Receipt.validate_total_sum, in minor units.
ReceiptTolerance == 5

RECURSIVE SumOfSums(_)
SumOfSums(items) ==
    IF items = <<>> THEN 0 ELSE Head(items).sum + SumOfSums(Tail(items))

\* validate_total_sum that accepts every receipt.
TotalSumAcceptedAlways(totalSum, items) == TRUE

\* Receipt.validate_total_sum: raises unless |totalSum - sum of item sums| <= 5
TotalSumAccepted(totalSum, items) ==
    ~ (Abs(totalSum - SumOfSums(items)) > ReceiptTolerance)

\* A datetime is [sec, usec]; strftime with a seconds format drops usec.
Strftime(dt, fmt) == [kind |-> "str", fmt |-> fmt, sec |-> dt.sec]

\* Receipt(code=3, dateTime=..., ..., items=items, amountsReceiptNds=...)
NewReceipt(data, dateTime, totalSum, items, amountsReceiptNds) ==
    IF TotalSumAccepted(totalSum, items)
    THEN [kind |-> "Receipt", code |-> 3, dateTime |-> dateTime,
          fiscalDocumentNumber |-> data.total_counter,
          fiscalSign |-> data.transaction_type_counter,
          kktRegId |-> data.tin, totalSum |-> totalSum,
          ecashTotalSum |-> totalSum, operationType |-> 1,
          taxationType |-> 2, appliedTaxationType |-> 2,
          user |-> data.shop_name, userInn |-> data.tin,
          retailPlace |-> data.shop_name,
          retailPlaceAddress |-> data.shop_address \o <<",", " ">> \o data.city,
          items |-> items, amountsReceiptNds |-> amountsReceiptNds]
    ELSE ValidationError("Receipt.validate_total_sum")

-----------------------------------------------------------------------------
(* SerbianToRussianConverter.convert *)

None == [kind |-> "None"]

\* The body of the loop of lines 758-773 for one raw item.
ConvertItem(item_data) ==
    NewItem(item_data.name,
            FloatToInt(item_data.quantity),
            FloatTimes100ToInt(item_data.price),
            FloatTimes100ToInt(item_data.sum),
            item_data.nds_type, 4, 1)

\* A placeholder that drops the amount.
PlaceholderItemZero(total_cents) ==
    NewItem("Goods/services", 1, 0, 0, 2, 1, 1)

\* Lines 776-787: the single item that stands for a receipt without items.
PlaceholderItem(total_cents) ==
    NewItem("Goods/services", 1, total_cents, total_cents, 2, 1, 1)

\* Lines 800-805: the VAT of one item.
ItemNds(item) ==
    IF item.nds = 2 THEN FloatTenth(item.sum)
    ELSE IF item.nds = 3 THEN FloatFifth(item.sum)
    ELSE 0

\* Keys of nds_amounts in insertion order (lines 794-797).
RECURSIVE NdsKeys(_, _)
NdsKeys(items, seen) ==
    IF items = <<>> THEN <<>>
    ELSE IF Head(items).nds \in seen THEN NdsKeys(Tail(items), seen)
    ELSE <<Head(items).nds>> \o NdsKeys(Tail(items), seen \cup {Head(items).nds})

\* nds_amounts[nds_type] after the loop of lines 794-807.
RECURSIVE NdsAmount(_, _)
NdsAmount(items, nds_type) ==
    IF items = <<>> THEN 0
    ELSE (IF Head(items).nds = nds_type THEN ItemNds(Head(items)) ELSE 0)
         + NdsAmount(Tail(items), nds_type)

\* Buckets for every category met, the empty ones included.
AmountsReceiptNdsAll(items) ==
    LET keys == NdsKeys(items, {})
    IN  IF keys = <<>> THEN None
        ELSE [kind |-> "AmountsReceiptNds",
              amountsNds |-> [i \in 1..Len(keys) |->
                                [nds |-> keys[i], ndsSum |-> NdsAmount(items, keys[i])]]]

\* Lines 810-815: the buckets with a positive amount, or None without any.
AmountsReceiptNds(items) ==
    LET keys == NdsKeys(items, {})
        Positive(k) == NdsAmount(items, k) > 0
        kept == SelectSeq(keys, Positive)
    IN  IF kept = <<>> THEN None
        ELSE [kind |-> "AmountsReceiptNds",
              amountsNds |-> [i \in 1..Len(kept) |->
                                [nds |-> kept[i], ndsSum |-> NdsAmount(items, kept[i])]]]

\* convert() that stamps the document with the wall clock.
CreatedAtSourceWallClock(data, clock) == clock

\* The datetime convert() formats into dateTime and createdAt (lines 820, 855).
CreatedAtSource(data, clock) == data.sdc_date_time

\* convert(): the FiscalData returned, or the exception that leaves it.
Convert(data, random_id, clock) ==
    LET raw       == data.items
        converted == [i \in 1..Len(raw) |-> ConvertItem(raw[i])]
        failed    == {i \in 1..Len(raw) : converted[i].kind = "raised"}
        total_cents == FloatTimes100ToInt(data.total_amount)
        items     == IF raw = <<>> THEN <<PlaceholderItem(total_cents)>> ELSE converted
        stamp     == CreatedAtSource(data, clock)
        receipt   == NewReceipt(data, Strftime(stamp, "%Y-%m-%dT%H:%M:%S"),
                                total_cents, items, AmountsReceiptNds(items))
    IN  IF failed # {} THEN ValidationError("Item.validate_sum")
        ELSE IF receipt.kind = "raised" THEN receipt
        ELSE [kind |-> "FiscalData", id |-> random_id,
              created_at |-> Strftime(stamp, "%Y-%m-%dT%H:%M:%S+00:00"),
              receipt |-> receipt]

-----------------------------------------------------------------------------
(* Python text functions used by the extractors *)

\* str(Decimal(...)) is fixed by sign, digits and exponent: "1.0" and "1.00"
\* are equal Decimals with different texts.
DecimalRepr(neg, mag, e) == [neg |-> neg, mag |-> mag, e |-> e]

\* str() of the Decimal that _parse_serbian_number returns for text.
ParsedRepr(text) ==
    LET cleaned == ReSubNonNumeric(CleanSeparators(Strip(text)))
        neg     == cleaned # <<>> /\ Head(cleaned) = "-"
        body    == IF neg THEN Tail(cleaned) ELSE cleaned
        dot     == IndexOf(body, ".", 1)
    IN  IF text = <<>> \/ ~ DecimalAccepts(cleaned) THEN DecimalRepr(FALSE, 0, 0)
        ELSE DecimalRepr(neg, DigitsValue(Remove(body, ".")),
                         IF dot > Len(body) THEN 0 ELSE Len(body) - dot)

\* float(text) succeeds: optional sign, digits with at most one ".", at least
\* one digit, surrounding whitespace ignored.  (The texts of the model hold no
\* exponent, underscore, "inf" or "nan".)
FloatAccepts(text) ==
    LET t    == Strip(text)
        body == IF t # <<>> /\ Head(t) \in {"-", "+"} THEN Tail(t) ELSE t
    IN  /\ \A i \in 1..Len(body) : IsReDigit(body[i]) \/ body[i] = "."
        /\ CountChar(body, ".") <= 1
        /\ \E i \in 1..Len(body) : IsReDigit(body[i])

\* needle in haystack, for str
Contains(haystack, needle) ==
    \E i \in 0..(Len(haystack) - Len(needle)) :
        SubSeq(haystack, i + 1, i + Len(needle)) = needle

\* End of the run of \d that starts at i (i - 1 when s[i] is no digit).
RECURSIVE DigitRunEnd(_, _)
DigitRunEnd(s, i) ==
    IF i <= Len(s) /\ IsReDigit(s[i]) THEN DigitRunEnd(s, i + 1) ELSE i - 1

\* re.findall(r"\d+[.,]\d+", s) from position i: leftmost matches, greedy, not
\* overlapping.
RECURSIVE FindNumbers(_, _)
FindNumbers(s, i) ==
    IF i > Len(s) THEN <<>>
    ELSE LET j == DigitRunEnd(s, i) IN
         IF /\ j >= i
            /\ j + 2 <= Len(s)
            /\ s[j + 1] \in {".", ","}
            /\ IsReDigit(s[j + 2])
         THEN LET k == DigitRunEnd(s, j + 2)
              IN  <<SubSeq(s, i, k)>> \o FindNumbers(s, k + 1)
         ELSE FindNumbers(s, i + 1)

\* Decimal * Decimal("0.909") and the like: exact product
DecTimes(d, m, e) == Dec(d.m * m, d.e + e)

-----------------------------------------------------------------------------
(* FiscalParser: the line item strategies *)

\* Cyrillic letters of the tax labels, as one-character texts.
LabelDje == "DJE"      \* U+0402, marks 20 %
LabelIe  == "IE"       \* U+0415, marks 10 %
LabelA   == "A_CYR"    \* U+0410, marks no VAT

\* A mapping that looks for the 10 % mark first.
NdsTypeOfLabelIeFirst(label) ==
    IF Contains(label, <<LabelIe>>) \/ Contains(label, <<"1", "0">>) THEN 2
    ELSE IF Contains(label, <<LabelDje>>) \/ Contains(label, <<"2", "0">>) THEN 3
    ELSE IF Contains(label, <<LabelA>>) THEN 1
    ELSE 2

\* _parse_item_row, lines 589-596
NdsTypeOfLabel(label) ==
    IF Contains(label, <<LabelDje>>) \/ Contains(label, <<"2", "0">>) THEN 3
    ELSE IF Contains(label, <<LabelIe>>) \/ Contains(label, <<"1", "0">>) THEN 2
    ELSE IF Contains(label, <<LabelA>>) THEN 1
    ELSE 2

\* A table row is the sequence of its td/th cells, a cell the text get_text
\* gives before stripping.
CellText(cells, i) == Strip(cells[i])

\* _parse_item_row(cells)
ParseItemRow(cells) ==
    LET quantity_text == CellText(cells, 2)
        label == IF Len(cells) > 6 THEN CellText(cells, 7) ELSE <<LabelIe>>
    IN  [name |-> CellText(cells, 1),
         quantity |-> IF quantity_text # <<>> THEN ParseSerbianNumber(quantity_text)
                      ELSE Zero,
         price |-> ParseSerbianNumber(CellText(cells, 3)),
         sum |-> ParseSerbianNumber(CellText(cells, 4)),
         nds_type |-> NdsTypeOfLabel(label),
         tax_base |-> ParseSerbianNumber(IF Len(cells) > 4 THEN CellText(cells, 5)
                                         ELSE <<"0">>),
         vat_amount |-> ParseSerbianNumber(IF Len(cells) > 5 THEN CellText(cells, 6)
                                           ELSE <<"0">>),
         label |-> label]

\* item_key of line 460: f"{name}_{quantity}_{price}"
ItemKey(cells) ==
    <<CellText(cells, 1), ParsedRepr(CellText(cells, 2)), ParsedRepr(CellText(cells, 3))>>

\* _is_item_row(cell_texts)
IsItemRow(cell_texts) ==
    IF Len(cell_texts) < 4 THEN FALSE
    ELSE /\ FloatAccepts(Replace(cell_texts[2], ",", "."))
         /\ FloatAccepts(Replace(Remove(cell_texts[3], "."), ",", "."))
         /\ FloatAccepts(Replace(Remove(cell_texts[4], "."), ",", "."))
         /\ Strip(cell_texts[1]) # <<>>

\* The elements soup.find_all finds with "Specifications" in data-bind: the
\* bound element and, when a nested element repeats the binding, that one too.
KnockoutElements(page) ==
    IF page.nested THEN <<page.specs, page.specs>> ELSE <<page.specs>>

RECURSIVE Flatten(_)
Flatten(seqs) == IF seqs = <<>> THEN <<>> ELSE Head(seqs) \o Flatten(Tail(seqs))

\* The loop with the item's name alone as its key.
RECURSIVE KnockoutLoopByName(_, _)
KnockoutLoopByName(rows, seen_items) ==
    IF rows = <<>> THEN <<>>
    ELSE LET cells == Head(rows) IN
         IF /\ Len(cells) >= 4
            /\ ParseItemRow(cells).name # <<>>
            /\ CellText(cells, 1) \notin seen_items
         THEN <<ParseItemRow(cells)>>
              \o KnockoutLoopByName(Tail(rows), seen_items \cup {CellText(cells, 1)})
         ELSE KnockoutLoopByName(Tail(rows), seen_items)

\* The loop of lines 448-468 over the rows met, with the keys seen so far.
RECURSIVE KnockoutLoop(_, _)
KnockoutLoop(rows, seen_items) ==
    IF rows = <<>> THEN <<>>
    ELSE LET cells == Head(rows) IN
         IF /\ Len(cells) >= 4
            /\ ParseItemRow(cells).name # <<>>
            /\ ItemKey(cells) \notin seen_items
         THEN <<ParseItemRow(cells)>>
              \o KnockoutLoop(Tail(rows), seen_items \cup {ItemKey(cells)})
         ELSE KnockoutLoop(Tail(rows), seen_items)

\* _extract_items_by_knockout_binding(soup)
ExtractItemsByKnockoutBinding(page) ==
    KnockoutLoop(Flatten(KnockoutElements(page)), {})

\* soup.find_all("tr"): every row of the document, the bound ones included
AllRows(page) == page.specs \o page.rows

\* The loop of lines 406-429
RECURSIVE TableLoop(_)
TableLoop(rows) ==
    IF rows = <<>> THEN <<>>
    ELSE LET cells == Head(rows)
             cell_texts == [i \in 1..Len(cells) |-> CellText(cells, i)]
         IN  IF /\ Len(cells) >= 4
                /\ IsItemRow(cell_texts)
                /\ ParseItemRow(cells).name # <<>>
             THEN <<ParseItemRow(cells)>> \o TableLoop(Tail(rows))
             ELSE TableLoop(Tail(rows))

\* A pre-check that asks for four numbers.
LooksLikeItemLineFour(line) == Len(FindNumbers(line, 1)) >= 4

\* _looks_like_item_line(line)
LooksLikeItemLine(line) == Len(FindNumbers(line, 1)) >= 2

\* The name of line 506-507: the text before the first ASCII digit, stripped.
RECURSIVE NonDigitPrefix(_)
NonDigitPrefix(s) ==
    IF s = <<>> \/ Head(s) \in AsciiDigits THEN <<>>
    ELSE <<Head(s)>> \o NonDigitPrefix(Tail(s))

DefaultItemName == <<"I", "t", "e", "m">>

\* _extract_item_from_line(line): the item, or None
ExtractItemFromLine(line) ==
    LET numbers == FindNumbers(line, 1)
        total   == ParseSerbianNumber(numbers[3])
    IN  IF Len(numbers) >= 3
        THEN [name |-> IF NonDigitPrefix(line) # <<>> THEN Strip(NonDigitPrefix(line))
                       ELSE DefaultItemName,
              quantity |-> ParseSerbianNumber(numbers[1]),
              price |-> ParseSerbianNumber(numbers[2]),
              sum |-> total,
              nds_type |-> 2,
              tax_base |-> DecTimes(total, 909, 3),
              vat_amount |-> DecTimes(total, 91, 3),
              label |-> <<LabelIe>>]
        ELSE None

\* _extract_items_by_text_search(soup) over the lines of soup.get_text()
RECURSIVE TextLoop(_)
TextLoop(lines) ==
    IF lines = <<>> THEN <<>>
    ELSE LET line == Strip(Head(lines)) IN
         IF /\ Len(line) > 10
            /\ \E i \in 1..Len(line) : IsReDigit(line[i])
            /\ LooksLikeItemLine(line)
            /\ ExtractItemFromLine(line) # None
         THEN <<ExtractItemFromLine(line)>> \o TextLoop(Tail(lines))
         ELSE TextLoop(Tail(lines))

\* A chain in which the text search always runs and its items are appended.
ExtractItemsFromTableMixed(page) ==
    LET knockout == ExtractItemsByKnockoutBinding(page)
        table    == TableLoop(AllRows(page))
    IN  IF knockout # <<>>
        THEN [items |-> knockout \o TextLoop(page.lines), ran |-> <<"knockout", "text">>]
        ELSE [items |-> table \o TextLoop(page.lines),
              ran |-> <<"knockout", "table", "text">>]

\* _extract_items_from_table(soup), lines 389-437: the items returned and the
\* strategies that ran.
ExtractItemsFromTable(page) ==
    LET knockout == ExtractItemsByKnockoutBinding(page)
        table    == TableLoop(AllRows(page))
    IN  IF knockout # <<>>
        THEN [items |-> knockout, ran |-> <<"knockout">>]
        ELSE IF table # <<>>
        THEN [items |-> table, ran |-> <<"knockout", "table">>]
        ELSE [items |-> TextLoop(page.lines), ran |-> <<"knockout", "table", "text">>]

-----------------------------------------------------------------------------
(* FiscalParser._parse_html_content: scalar fields and assembly *)

\* An element looked up by id: absent, or present with its text.
Absent == [present |-> FALSE, text |-> <<>>]
Element(text) == [present |-> TRUE, text |-> text]

\* The sdcDateTimeLabel element: its text either has the form
\* "%d.%m.%Y. %H:%M:%S" and denotes the second sec, or it has not.
AbsentStamp == [present |-> FALSE, wellformed |-> FALSE, sec |-> 0]
StampElement(wellformed, sec) == [present |-> TRUE, wellformed |-> wellformed, sec |-> sec]

ValueError(where) == [kind |-> "raised", exc |-> "ValueError", by |-> where]

\* _extract_tin and the other string extractors (lines 269-297, 322-330, 349-367)
ExtractText(element) == IF element.present THEN Strip(element.text) ELSE <<>>

\* _extract_buyer_id
ExtractBuyerId(element) ==
    IF ExtractText(element) # <<>> THEN ExtractText(element) ELSE None

\* _extract_total_amount
ExtractTotalAmount(element) ==
    IF element.present THEN ParseSerbianNumber(Strip(element.text)) ELSE Zero

\* int(text): optional sign, then digits only; anything else raises ValueError
IntAccepts(text) ==
    LET t    == Strip(text)
        body == IF t # <<>> /\ Head(t) \in {"-", "+"} THEN Tail(t) ELSE t
    IN  body # <<>> /\ \A i \in 1..Len(body) : IsReDigit(body[i])

IntValue(text) ==
    LET t == Strip(text) IN
    IF Head(t) = "-" THEN -DigitsValue(Tail(t))
    ELSE IF Head(t) = "+" THEN DigitsValue(Tail(t))
    ELSE DigitsValue(t)

\* A counter extractor whose default for a missing element is -1.
ExtractCounterMinusOne(element) ==
    IF element.present THEN IntValue(Strip(element.text)) ELSE -1

\* _extract_transaction_type_counter, _extract_total_counter
CounterRaises(element) == element.present /\ ~ IntAccepts(Strip(element.text))
ExtractCounter(element) == IF element.present THEN IntValue(Strip(element.text)) ELSE 0

\* An extractor that stamps every receipt with the wall clock.
ExtractSdcDateTimeNow(stamp, clock) == clock

\* _extract_sdc_date_time
ExtractSdcDateTime(stamp, clock) ==
    IF stamp.present /\ stamp.wellformed THEN [sec |-> stamp.sec, usec |-> 0]
    ELSE clock

\* SerbianFiscalData(**data)
SerbianFiscalData(data) == [kind |-> "SerbianFiscalData"] @@ data

\* _parse_html_content(html_content): the SerbianFiscalData, or the exception
\* that leaves it.  The dict of lines 246-265 is filled in source order, so a
\* counter that raises ends the call before the items are looked for.
ParseHtmlContent(page, clock) ==
    LET el == page.elements IN
    IF CounterRaises(el.transactionTypeCounterLabel)
    THEN ValueError("_extract_transaction_type_counter")
    ELSE IF CounterRaises(el.totalCounterLabel)
    THEN ValueError("_extract_total_counter")
    ELSE SerbianFiscalData(
        [tin |-> ExtractText(el.tinLabel),
         shop_name |-> ExtractText(el.shopFullNameLabel),
         shop_address |-> ExtractText(el.addressLabel),
         city |-> ExtractText(el.cityLabel),
         administrative_unit |-> ExtractText(el.administrativeUnitLabel),
         invoice_number |-> ExtractText(el.invoiceNumberLabel),
         total_amount |-> ExtractTotalAmount(el.totalAmountLabel),
         transaction_type_counter |-> ExtractCounter(el.transactionTypeCounterLabel),
         total_counter |-> ExtractCounter(el.totalCounterLabel),
         invoice_counter_extension |-> ExtractText(el.invoiceCounterExtensionLabel),
         signed_by |-> ExtractText(el.signedByLabel),
         sdc_date_time |-> ExtractSdcDateTime(page.sdcDateTimeLabel, clock),
         buyer_id |-> ExtractBuyerId(el.buyerIdLabel),
         requested_by |-> ExtractText(el.requestedByLabel),
         invoice_type |-> ExtractText(el.invoiceTypeId),
         transaction_type |-> ExtractText(el.transactionTypeId),
         status |-> ExtractText(el.invoiceStatusLabel),
         items |-> ExtractItemsFromTable(page).items])

\* The strategies a _parse_html_content call ran.
\* _extract_items_from_table, lines 375-387: the page is written to
\* debug_<date>.html, the one file of the day, replacing what it held.
WriteDebugFile(file, writer, page) ==
    [content |-> page, writers |-> file.writers \cup {writer}]

StrategiesRun(page) ==
    IF ParseHtmlContent(page, WallClock(0)).kind = "raised" THEN <<>>
    ELSE ExtractItemsFromTable(page).ran

-----------------------------------------------------------------------------
(* Idle values of the variable groups a specification does not use *)

NoData == [kind |-> "no_data"]
NoPage == [kind |-> "no_page"]
NoFile == [content |-> NoPage, writers |-> {}]

IdleNumber  == numText = <<>> /\ numResult = NotRun
IdleItem    == itemArgs = [quantity |-> 0, price |-> 0, sum |-> 0] /\ itemResult = NotRun
IdleClock   == now = 0
IdleConvert == serbian_data = NoData /\ fiscal_data = NotRun /\ fiscal_again = NotRun
IdlePage    == html = NoPage /\ strategies = <<>> /\ serbian_again = NoData
IdleEntry   == calls = <<>> /\ drivers = <<>> /\ mode = "idle" /\ debug_file = NoFile
IdleBot     == /\ request_logs = <<>> /\ message_logs = <<>> /\ users = <<>>
               /\ handler = NotRun /\ sent = <<>> /\ today = 0 /\ db = "idle"

-----------------------------------------------------------------------------
(* Specification of the number parser: one call on one bounded text *)

InitNumber ==
    /\ numText \in NumberInputs
    /\ numResult = NotRun
    /\ IdleItem /\ IdleClock /\ IdleConvert /\ IdlePage /\ IdleEntry /\ IdleBot

CallParseNumber ==
    /\ numResult = NotRun
    /\ numResult' = ParseSerbianNumber(numText)
    /\ UNCHANGED <<numText, itemVars, now, convertVars, pageVars, entryVars, botVars>>

NextNumber == CallParseNumber

SpecNumber == InitNumber /\ [][NextNumber]_vars

-----------------------------------------------------------------------------
(* Specification of Item construction: one constructor call *)

\* Largest quantity and largest distance of sum from quantity * price enumerated.
MaxQuantity == 3
MaxDiff == 7

ItemPrices == {0, 1000, 3333, 10000}

ItemInputs ==
    { [quantity |-> q, price |-> p, sum |-> q * p + d] :
        q \in 0..MaxQuantity, p \in ItemPrices, d \in (-MaxDiff)..MaxDiff }
    \cup { [quantity |-> 2, price |-> 10000, sum |-> 50000],   \* test_models.py:51-59
           [quantity |-> 2, price |-> 1000, sum |-> 5000] }    \* test_models.py:227-235

InitItem ==
    /\ itemArgs \in ItemInputs
    /\ itemResult = NotRun
    /\ IdleNumber /\ IdleClock /\ IdleConvert /\ IdlePage /\ IdleEntry /\ IdleBot

ConstructItem ==
    /\ itemResult = NotRun
    /\ itemResult' = NewItem("Item", itemArgs.quantity, itemArgs.price, itemArgs.sum, 2, 4, 1)
    /\ UNCHANGED <<itemArgs, numberVars, now, convertVars, pageVars, entryVars, botVars>>

NextItem == ConstructItem

SpecItem == InitItem /\ [][NextItem]_vars

-----------------------------------------------------------------------------
(* Specification of the converter: convert() called twice on one document *)

\* Most raw items of an enumerated SerbianFiscalData, and most clock ticks.
MaxItems == 2
MaxTicks == 1

RawItem(name, quantity, price, sum, nds_type) ==
    [name |-> name, quantity |-> quantity, price |-> price, sum |-> sum,
     nds_type |-> nds_type]

\* Raw items as _parse_item_row builds them (name, quantity, price, sum, nds_type).
SourceItems ==
    { RawItem("A", Dec(1, 0), Dec(7999, 2), Dec(7999, 2), 2),       \* 1 x 79.99
      RawItem("B", Dec(1, 0), Dec(159999, 2), Dec(159999, 2), 3),   \* 1 x 1599.99
      RawItem("C", Dec(1, 0), Dec(100, 2), Dec(100, 2), 1),         \* 1 x 1.00
      RawItem("D", Dec(2, 0), Dec(100, 2), Dec(200, 2), 2),         \* 2 x 1.00
      RawItem("E", Dec(1, 0), Dec(100, 2), Dec(105, 2), 3),         \* off by 0.05
      RawItem("F", Dec(1, 0), Dec(100, 2), Dec(106, 2), 2),         \* off by 0.06
      RawItem("G", Dec(3, 0), Dec(3333, 2), Dec(10000, 2), 2),      \* 3 x 33.33 = 100.00
      RawItem("H", Dec(1, 0), Dec(29, 2), Dec(29, 2), 3),           \* 1 x 0.29
      RawItem("K", Dec(1245, 3), Dec(32999, 2), Dec(41084, 2), 2) } \* 1.245 x 329.99

SourceTotals ==
    { Zero, Dec(100, 2), Dec(105, 2), Dec(106, 2), Dec(210, 2), Dec(7999, 2),
      Dec(10000, 2), Dec(41084, 2), Dec(167998, 2) }

DocTimes == { [sec |-> 10, usec |-> 0], [sec |-> 11, usec |-> 0] }

RandomIds == {"id_1", "id_2"}

ItemListsUpTo(n) == UNION {[1..k -> SourceItems] : k \in 0..n}

SourceReceipts ==
    { SerbianFiscalData(
        [tin |-> <<"1", "2", "3">>, shop_name |-> <<"S">>, shop_address |-> <<"A">>,
         city |-> <<"C">>, administrative_unit |-> <<"U">>, invoice_number |-> <<"N">>,
         total_amount |-> t, transaction_type_counter |-> 1, total_counter |-> 100,
         invoice_counter_extension |-> <<"X">>, signed_by |-> <<"B">>,
         sdc_date_time |-> d, buyer_id |-> None, requested_by |-> <<"R">>,
         invoice_type |-> <<"T">>, transaction_type |-> <<"P">>, status |-> <<"V">>,
         items |-> items]) :
        t \in SourceTotals, d \in DocTimes, items \in ItemListsUpTo(MaxItems) }

InitConvert ==
    /\ serbian_data \in SourceReceipts
    /\ fiscal_data = NotRun
    /\ fiscal_again = NotRun
    /\ IdleClock /\ IdleNumber /\ IdleItem /\ IdlePage /\ IdleEntry /\ IdleBot

\* Time passes.
Tick ==
    /\ now < MaxTicks
    /\ now' = now + 1
    /\ UNCHANGED <<numberVars, itemVars, convertVars, pageVars, entryVars, botVars>>

\* SerbianToRussianConverter(serbian_data).convert()
ConvertFirst ==
    /\ serbian_data.kind = "SerbianFiscalData"
    /\ fiscal_data = NotRun
    /\ \E id \in RandomIds : fiscal_data' = Convert(serbian_data, id, WallClock(now))
    /\ UNCHANGED <<numberVars, itemVars, now, serbian_data, fiscal_again, pageVars, entryVars, botVars>>

\* A second convert() on the same SerbianFiscalData
ConvertAgain ==
    /\ fiscal_data # NotRun
    /\ fiscal_again = NotRun
    /\ \E id \in RandomIds : fiscal_again' = Convert(serbian_data, id, WallClock(now))
    /\ UNCHANGED <<numberVars, itemVars, now, serbian_data, fiscal_data, pageVars, entryVars, botVars>>

NextConvert == Tick \/ ConvertFirst \/ ConvertAgain

SpecConvert == InitConvert /\ [][NextConvert]_vars

-----------------------------------------------------------------------------
(* Specification of the pipeline: a rendered page is parsed, then converted *)

\* Most rows of the bound table, and of the other tables, of an enumerated page.
MaxRows == 2

RowMilk  == << <<"M", "i", "l", "k">>, <<"2">>, <<"1", ",", "0", "0">>,
               <<"2", ",", "0", "0">>, <<"1", ",", "6", "7">>,
               <<"0", ",", "3", "3">>, <<LabelDje>> >>
RowBread == << <<" ", "B", "r", "e", "a", "d">>, <<"1">>, <<"7", "9", ",", "9", "9">>,
               <<"7", "9", ",", "9", "9">> >>
RowShort == << <<"S", "u", "m">>, <<"2">>, <<"2", ",", "0", "0">> >>
RowTea   == << <<"T", "e", "a">>, <<"1", ",", "0">>, <<"2", ",", "0", "0">>,
               <<"2", ",", "0", "0">> >>
RowHead  == << <<"N", "a", "m", "e">>, <<"Q", "t", "y">>, <<"P", "r", "i", "c", "e">>,
               <<"T", "o", "t", "a", "l">> >>

\* Rows inside the element bound to Specifications, and rows of other tables.
SpecsRows == {RowMilk, RowBread, RowShort}
TableRows == {RowTea, RowHead}

\* "Total 1,00 2,50" and "Juice 1,00 2,50 2,50"
LineNoise == <<"T", "o", "t", "a", "l", " ", "1", ",", "0", "0", " ",
               "2", ",", "5", "0">>
LineJuice == <<"J", "u", "i", "c", "e", " ", "1", ",", "0", "0", " ",
               "2", ",", "5", "0", " ", "2", ",", "5", "0">>

\* soup.get_text() of the enumerated pages, line by line.
PageTexts == { <<>>, <<LineNoise>>, <<LineNoise, LineJuice>> }

ElementIds ==
    {"tinLabel", "shopFullNameLabel", "addressLabel", "cityLabel",
     "administrativeUnitLabel", "invoiceNumberLabel", "totalAmountLabel",
     "transactionTypeCounterLabel", "totalCounterLabel",
     "invoiceCounterExtensionLabel", "signedByLabel", "buyerIdLabel",
     "requestedByLabel", "invoiceTypeId", "transactionTypeId",
     "invoiceStatusLabel"}

NoElements == [id \in ElementIds |-> Absent]

\* Every element present: padded strings, total "2,00", counters "5" and "7".
FullElements ==
    [id \in ElementIds |->
        IF id = "totalAmountLabel" THEN Element(<<"2", ",", "0", "0">>)
        ELSE IF id = "transactionTypeCounterLabel" THEN Element(<<"5">>)
        ELSE IF id = "totalCounterLabel" THEN Element(<<" ", "7">>)
        ELSE Element(<<" ", "x", " ">>)]

\* Scalar parts of the enumerated pages: nothing; everything; a total of
\* 79,99; elements that are present but hold no usable text; an empty counter.
NoScalars   == [elements |-> NoElements, sdcDateTimeLabel |-> AbsentStamp]
FullScalars == [elements |-> FullElements, sdcDateTimeLabel |-> StampElement(TRUE, 10)]

ScalarParts ==
    { NoScalars, FullScalars,
      [elements |-> [FullElements EXCEPT
                        !["totalAmountLabel"] = Element(<<"7", "9", ",", "9", "9">>)],
       sdcDateTimeLabel |-> StampElement(TRUE, 11)],
      [elements |-> [NoElements EXCEPT
                        !["totalAmountLabel"] = Element(<<"a", "b", "c">>),
                        !["buyerIdLabel"] = Element(<<" ">>),
                        !["tinLabel"] = Element(<<>>)],
       sdcDateTimeLabel |-> StampElement(FALSE, 0)],
      [elements |-> [FullElements EXCEPT !["totalCounterLabel"] = Element(<<>>)],
       sdcDateTimeLabel |-> StampElement(TRUE, 10)] }

RowListsUpTo(rows, n) == UNION {[1..k -> rows] : k \in 0..n}

\* The rows of the tables outside the binding, on the enumerated pages.
TableRowLists ==
    { <<>>, <<RowTea>>, <<RowHead>>, <<RowTea, RowTea>>, <<RowHead, RowTea>> }

Page(sp, specs, nested, rows, lines) ==
    [kind |-> "page", elements |-> sp.elements,
     sdcDateTimeLabel |-> sp.sdcDateTimeLabel,
     specs |-> specs, nested |-> nested, rows |-> rows, lines |-> lines]

\* Pages without any table under every scalar part, and pages with every
\* combination of rows under no scalar element and under all of them.
Pages ==
    { Page(sp, <<>>, FALSE, <<>>, lines) : sp \in ScalarParts, lines \in PageTexts }
    \cup
    { Page(sp, specs, nested, rows, lines) :
        sp \in {NoScalars, FullScalars}, specs \in RowListsUpTo(SpecsRows, MaxRows),
        nested \in BOOLEAN, rows \in TableRowLists, lines \in PageTexts }

Init ==
    /\ html \in Pages
    /\ strategies = <<>>
    /\ serbian_again = NoData
    /\ IdleConvert /\ IdleClock /\ IdleNumber /\ IdleItem /\ IdleEntry /\ IdleBot

\* An except branch that keeps -1 as the counter of a failed parse.
EmptySerbianFiscalDataMinusOne(clock) ==
    SerbianFiscalData(
        [tin |-> <<>>, shop_name |-> <<>>, shop_address |-> <<>>, city |-> <<>>,
         administrative_unit |-> <<>>, invoice_number |-> <<>>,
         total_amount |-> Zero, transaction_type_counter |-> 0, total_counter |-> -1,
         invoice_counter_extension |-> <<>>, signed_by |-> <<>>,
         sdc_date_time |-> clock, buyer_id |-> None, requested_by |-> <<>>,
         invoice_type |-> <<>>, transaction_type |-> <<>>, status |-> <<>>,
         items |-> <<>>])

\* The empty data parse_url returns from its except branch, lines 152-171.
EmptySerbianFiscalData(clock) ==
    SerbianFiscalData(
        [tin |-> <<>>, shop_name |-> <<>>, shop_address |-> <<>>, city |-> <<>>,
         administrative_unit |-> <<>>, invoice_number |-> <<>>,
         total_amount |-> Zero, transaction_type_counter |-> 0, total_counter |-> 0,
         invoice_counter_extension |-> <<>>, signed_by |-> <<>>,
         sdc_date_time |-> clock, buyer_id |-> None, requested_by |-> <<>>,
         invoice_type |-> <<>>, transaction_type |-> <<>>, status |-> <<>>,
         items |-> <<>>])

\* parse_url(url): the page is loaded and parsed; when loading or parsing
\* raises, the except branch returns the empty data.
ParseUrl ==
    /\ html # NoPage
    /\ serbian_data = NoData
    /\ \E loaded \in BOOLEAN :
          LET parsed == ParseHtmlContent(html, WallClock(now)) IN
          IF loaded /\ parsed.kind # "raised"
          THEN /\ serbian_data' = parsed
               /\ strategies' = StrategiesRun(html)
               /\ debug_file' = WriteDebugFile(debug_file, 0, html)
          ELSE /\ serbian_data' = EmptySerbianFiscalData(WallClock(now))
               /\ strategies' = IF loaded THEN StrategiesRun(html) ELSE <<>>
               /\ UNCHANGED debug_file
    /\ UNCHANGED <<numberVars, itemVars, now, fiscal_data, fiscal_again, html, serbian_again,
                   calls, drivers, mode, botVars>>

Next == Tick \/ ParseUrl \/ ConvertFirst

Spec == Init /\ [][Next]_vars

-----------------------------------------------------------------------------
(* parse_serbian_fiscal_url: the invocations, their parsers and drivers *)

MaxCalls == 2

\* The failures the environment produces: every one for a single invocation,
\* none but a driver that is not connectable for concurrent invocations.
SetupOutcomes   == IF mode = "single" THEN BOOLEAN ELSE {TRUE}
CheckOutcomes   == IF mode = "single" THEN {"connectable", "not_connectable", "raises"}
                   ELSE {"connectable", "not_connectable"}
GetOutcomes     == IF mode = "single" THEN {"ok", "WebDriverException", "TimeoutException"}
                   ELSE {"ok"}
SpinnerOutcomes == IF mode = "single" THEN BOOLEAN ELSE {TRUE}
ClickOutcomes   == IF mode = "single" THEN BOOLEAN ELSE {TRUE}
PanelStates     == IF mode = "single" THEN {"absent", "collapsed", "expanded"}
                   ELSE {"collapsed"}

\* The pages driver.page_source gives: nothing; a receipt with one item that
\* converts; the same with a counter element without text; a receipt whose
\* total differs from its only item.
PageEmpty    == Page(NoScalars, <<>>, FALSE, <<>>, <<>>)
PageGood     == Page(FullScalars, <<RowMilk>>, FALSE, <<>>, <<>>)
PageBadCounter ==
    Page([elements |-> [FullElements EXCEPT !["totalCounterLabel"] = Element(<<>>)],
          sdcDateTimeLabel |-> StampElement(TRUE, 10)],
         <<RowMilk>>, FALSE, <<>>, <<>>)
PageMismatch == Page(FullScalars, <<RowBread>>, FALSE, <<>>, <<>>)

PageSourceRaises == [kind |-> "raised", exc |-> "WebDriverException", by |-> "page_source"]

ReadOutcomes ==
    IF mode = "single"
    THEN {PageEmpty, PageGood, PageBadCounter, PageMismatch, PageSourceRaises}
    ELSE {PageGood}

Raised(exc, where) == [kind |-> "raised", exc |-> exc, by |-> where]

\* An invocation before its first step.  driver is self.driver of its
\* FiscalParser (0 for None); check, get, wait, read and parse record what the
\* steps of parse_url met; outcome is what the call returns or raises.
NewCall ==
    [pc |-> "ready", driver |-> 0, check |-> "not_run", get |-> "not_run",
     wait |-> "not_run", clickable |-> FALSE, panel |-> "not_run",
     read |-> "not_run", parse |-> "not_run", page |-> NoPage, data |-> NoData,
     outcome |-> NotRun]

\* A browser session as webdriver.Chrome(...) starts it.
NewDriver(i) ==
    [owner |-> i, users |-> {}, quits |-> 0, spinner |-> "visible",
     panel |-> "absent", clicks |-> 0]

\* A _setup_driver that hands out one module-wide driver.
SetupDriverShared(ds, i) == IF ds = <<>> THEN Append(ds, NewDriver(i)) ELSE ds

\* _setup_driver(), successful: a new driver, which self.driver then names by
\* its position in drivers.
SetupDriver(ds, i) == Append(ds, NewDriver(i))

\* Invocation i calls a method of driver d.
Use(ds, d, i) == [ds EXCEPT ![d].users = @ \cup {i}]

\* FiscalParser(headless=headless): __init__, lines 42-45.
Construct(i) ==
    /\ calls[i].pc = "ready"
    /\ \E ok \in SetupOutcomes :
          IF ok
          THEN /\ drivers' = SetupDriver(drivers, i)
               /\ calls' = [calls EXCEPT ![i].driver = Len(SetupDriver(drivers, i)),
                                         ![i].pc = "enter"]
          ELSE /\ calls' = [calls EXCEPT
                              ![i].outcome = Raised("WebDriverException", "__init__"),
                              ![i].pc = "done"]
               /\ UNCHANGED drivers
    /\ UNCHANGED <<numberVars, itemVars, now, convertVars, pageVars, mode, debug_file, botVars>>

\* __enter__, lines 730-733.
Enter(i) ==
    /\ calls[i].pc = "enter"
    /\ IF calls[i].driver = 0
       THEN /\ drivers' = SetupDriver(drivers, i)
            /\ calls' = [calls EXCEPT ![i].driver = Len(SetupDriver(drivers, i)),
                                      ![i].pc = "check"]
       ELSE /\ calls' = [calls EXCEPT ![i].pc = "check"]
            /\ UNCHANGED drivers
    /\ UNCHANGED <<numberVars, itemVars, now, convertVars, pageVars, mode, debug_file, botVars>>

\* parse_url, lines 125-129: the driver check.  A driver that is not
\* connectable, or a check that raises, makes _setup_driver assign a new
\* driver to self.driver; a _setup_driver that raises inside the try is
\* repeated by the bare except, and raises out of parse_url from there.
ParseUrlCheckDriver(i) ==
    /\ calls[i].pc = "check"
    /\ \E chk \in CheckOutcomes, ok_try \in SetupOutcomes, ok_except \in SetupOutcomes :
          LET used == Use(drivers, calls[i].driver, i) IN
          IF chk = "connectable"
          THEN /\ drivers' = used
               /\ calls' = [calls EXCEPT ![i].check = chk, ![i].pc = "get"]
          ELSE IF (chk = "not_connectable" /\ ok_try) \/ ok_except
          THEN /\ drivers' = SetupDriver(used, i)
               /\ calls' = [calls EXCEPT ![i].check = chk,
                                         ![i].driver = Len(SetupDriver(used, i)),
                                         ![i].pc = "get"]
          ELSE /\ drivers' = used
               /\ calls' = [calls EXCEPT
                              ![i].check = chk,
                              ![i].outcome = Raised("WebDriverException", "parse_url"),
                              ![i].pc = "exit"]
    /\ UNCHANGED <<numberVars, itemVars, now, convertVars, pageVars, mode, debug_file, botVars>>

\* parse_url, lines 131-134 and 148-172: driver.get(url).  When it raises, the
\* except branch returns the empty data.
ParseUrlGet(i) ==
    /\ calls[i].pc = "get"
    /\ \E g \in GetOutcomes, p \in PanelStates :
          LET d == calls[i].driver IN
          IF g = "ok"
          THEN /\ drivers' = [Use(drivers, d, i) EXCEPT ![d].panel = p]
               /\ calls' = [calls EXCEPT ![i].get = g, ![i].panel = p, ![i].pc = "wait"]
          ELSE /\ drivers' = Use(drivers, d, i)
               /\ calls' = [calls EXCEPT
                              ![i].get = g,
                              ![i].data = EmptySerbianFiscalData(WallClock(now)),
                              ![i].pc = "convert"]
    /\ UNCHANGED <<numberVars, itemVars, now, convertVars, pageVars, mode, debug_file, botVars>>

\* _wait_for_data_loading, lines 183-203: how often specs_button.click() runs.
\* A toggle that is not clickable within 10 s, or a missing #collapse-specs,
\* raises into the inner except; a class holding "show" skips the click.
PanelClicks(panel, clickable) ==
    IF clickable /\ panel = "collapsed" THEN 1 ELSE 0

\* _wait_for_data_loading(), lines 175-239.  A spinner that stays visible for
\* 15 s raises TimeoutException into the outer except, past the panel and the
\* table waits; the waits for a table row change nothing.
WaitForDataLoading(i) ==
    /\ calls[i].pc = "wait"
    /\ \E gone \in SpinnerOutcomes, clickable \in ClickOutcomes :
          LET d      == calls[i].driver
              used   == Use(drivers, d, i)
              clicks == PanelClicks(used[d].panel, clickable)
          IN  IF gone
              THEN /\ drivers' = [used EXCEPT
                                    ![d].spinner = "invisible",
                                    ![d].clicks = @ + clicks,
                                    ![d].panel = IF clicks > 0 THEN "expanded" ELSE @]
                   /\ calls' = [calls EXCEPT ![i].wait = "ok",
                                             ![i].clickable = clickable,
                                             ![i].pc = "read"]
              ELSE /\ drivers' = used
                   /\ calls' = [calls EXCEPT ![i].wait = "TimeoutException",
                                             ![i].clickable = clickable,
                                             ![i].pc = "read"]
    /\ UNCHANGED <<numberVars, itemVars, now, convertVars, pageVars, mode, debug_file, botVars>>

\* parse_url, lines 140-172: html_content = self.driver.page_source, then
\* _parse_html_content; whatever raises ends in the empty data.
ReadStep(i) ==
    /\ \E p \in ReadOutcomes :
          LET d      == calls[i].driver
              parsed == ParseHtmlContent(p, WallClock(now))
              empty  == EmptySerbianFiscalData(WallClock(now))
          IN  /\ drivers' = Use(drivers, d, i)
              /\ debug_file' = IF p.kind = "raised" \/ parsed.kind = "raised"
                               THEN debug_file ELSE WriteDebugFile(debug_file, i, p)
              /\ calls' =
                   IF p.kind = "raised"
                   THEN [calls EXCEPT ![i].read = "raised", ![i].data = empty,
                                      ![i].pc = "convert"]
                   ELSE IF parsed.kind = "raised"
                   THEN [calls EXCEPT ![i].read = drivers[d].spinner, ![i].page = p,
                                      ![i].parse = "raised", ![i].data = empty,
                                      ![i].pc = "convert"]
                   ELSE [calls EXCEPT ![i].read = drivers[d].spinner, ![i].page = p,
                                      ![i].parse = "ok", ![i].data = parsed,
                                      ![i].pc = "convert"]
    /\ UNCHANGED <<numberVars, itemVars, now, convertVars, pageVars, mode, botVars>>

\* The read of the page comes after _wait_for_data_loading has returned.
ParseUrlRead(i) == calls[i].pc = "read" /\ ReadStep(i)

\* A dump under the field names instead of the aliases.
ModelDumpByName(fiscal) ==
    [key \in {"id", "created_at", "ticket"} |->
        IF key = "id" THEN fiscal.id
        ELSE IF key = "created_at" THEN fiscal.created_at
        ELSE [document |-> [receipt |-> fiscal.receipt]]]

\* model_dump(mode="json", by_alias=True) of a FiscalData: the aliases _id and
\* createdAt, the receipt under ticket.document.
ModelDump(fiscal) ==
    [key \in {"_id", "createdAt", "ticket"} |->
        IF key = "_id" THEN fiscal.id
        ELSE IF key = "createdAt" THEN fiscal.created_at
        ELSE [document |-> [receipt |-> fiscal.receipt]]]

\* parse_serbian_fiscal_url, lines 918-933: convert() and the list returned.
ConvertAndDump(i) ==
    /\ calls[i].pc = "convert"
    /\ \E random_id \in RandomIds :
          LET russian_data == Convert(calls[i].data, random_id, WallClock(now)) IN
          calls' = [calls EXCEPT
                      ![i].outcome =
                          IF russian_data.kind = "raised" THEN russian_data
                          ELSE [kind |-> "returned", value |-> <<ModelDump(russian_data)>>],
                      ![i].pc = "exit"]
    /\ UNCHANGED <<numberVars, itemVars, now, convertVars, pageVars, drivers, mode, debug_file, botVars>>

\* __exit__ and close(), lines 724-736: quit the driver self.driver names,
\* then the return value or the exception reaches the caller.
Exit(i) ==
    /\ calls[i].pc = "exit"
    /\ LET d == calls[i].driver IN
       IF d # 0
       THEN /\ drivers' = [Use(drivers, d, i) EXCEPT ![d].quits = @ + 1]
            /\ calls' = [calls EXCEPT ![i].driver = 0, ![i].pc = "done"]
       ELSE /\ calls' = [calls EXCEPT ![i].pc = "done"]
            /\ UNCHANGED drivers
    /\ UNCHANGED <<numberVars, itemVars, now, convertVars, pageVars, mode, debug_file, botVars>>

InitEntry ==
    /\ mode \in {"single", "concurrent"}
    /\ calls = [i \in 1..(IF mode = "single" THEN 1 ELSE MaxCalls) |-> NewCall]
    /\ drivers = <<>>
    /\ debug_file = NoFile
    /\ IdleNumber /\ IdleItem /\ IdleClock /\ IdleConvert /\ IdlePage /\ IdleBot

NextEntry ==
    \/ \E i \in DOMAIN calls : Construct(i)
    \/ \E i \in DOMAIN calls : Enter(i)
    \/ \E i \in DOMAIN calls : ParseUrlCheckDriver(i)
    \/ \E i \in DOMAIN calls : ParseUrlGet(i)
    \/ \E i \in DOMAIN calls : WaitForDataLoading(i)
    \/ \E i \in DOMAIN calls : ParseUrlRead(i)
    \/ \E i \in DOMAIN calls : ConvertAndDump(i)
    \/ \E i \in DOMAIN calls : Exit(i)

SpecEntry == InitEntry /\ [][NextEntry]_vars

-----------------------------------------------------------------------------
(* _parse_html_content on pages with one item row under every tax label *)

MaxLabelLen == 2

LabelChars == {LabelDje, LabelIe, LabelA, "1", "0", "2", "x"}

Labels == UNION {[1..n -> LabelChars] : n \in 0..MaxLabelLen}

\* A row of Tea, 1 x 2,00 = 2,00, with tax base, VAT and the label cell.
RowWithLabel(label) ==
    << <<"T", "e", "a">>, <<"1">>, <<"2", ",", "0", "0">>, <<"2", ",", "0", "0">>,
       <<"1", ",", "6", "7">>, <<"0", ",", "3", "3">>, label >>

\* The same row cut after the VAT cell, and after the total.
RowSixCells  == SubSeq(RowWithLabel(<<>>), 1, 6)
RowFourCells == SubSeq(RowWithLabel(<<>>), 1, 4)

LabelRows == {RowWithLabel(label) : label \in Labels} \cup {RowSixCells, RowFourCells}

\* The row inside the Specifications binding, or in a table without binding.
LabelPages ==
    { Page(NoScalars, <<row>>, FALSE, <<>>, <<>>) : row \in LabelRows }
    \cup { Page(NoScalars, <<>>, FALSE, <<row>>, <<>>) : row \in LabelRows }

InitLabels ==
    /\ html \in LabelPages
    /\ strategies = <<>>
    /\ serbian_again = NoData
    /\ IdleConvert /\ IdleClock /\ IdleNumber /\ IdleItem /\ IdleEntry /\ IdleBot

SpecLabels == InitLabels /\ [][Next]_vars

-----------------------------------------------------------------------------
(* Pages whose rows all sit inside the Specifications binding *)

\* Milk 2 x 1,00 again with the quantity written "2,0": the same values in
\* another text; Milk 3 x 1,00; a row whose first cell is blank.
RowMilkPadded == << <<"M", "i", "l", "k">>, <<"2", ",", "0">>, <<"1", ",", "0", "0">>,
                    <<"2", ",", "0", "0">> >>
RowMilkThree  == << <<"M", "i", "l", "k">>, <<"3">>, <<"1", ",", "0", "0">>,
                    <<"3", ",", "0", "0">> >>
RowNoName     == << <<" ">>, <<"1">>, <<"2", ",", "0", "0">>, <<"2", ",", "0", "0">> >>

KnockoutRows == {RowMilk, RowMilkPadded, RowMilkThree, RowShort, RowNoName}

KnockoutPages ==
    { Page(NoScalars, specs, nested, <<>>, <<>>) :
        specs \in RowListsUpTo(KnockoutRows, MaxRows), nested \in BOOLEAN }

\* Rows of a table without binding: Flour 1.000,5 x 1,00 with the thousands
\* separator in the quantity, and Salt priced "2,00 RSD".
RowThousand == << <<"F", "l", "o", "u", "r">>, <<"1", ".", "0", "0", "0", ",", "5">>,
                  <<"1", ",", "0", "0">>, <<"1", ".", "0", "0", "0", ",", "5", "0">> >>
RowCurrency == << <<"S", "a", "l", "t">>, <<"1">>,
                  <<"2", ",", "0", "0", " ", "R", "S", "D">>, <<"2", ",", "0", "0">> >>

PlainRows == {RowTea, RowHead, RowShort, RowNoName, RowMilk, RowThousand, RowCurrency}

TablePages ==
    { Page(NoScalars, <<>>, FALSE, rows, <<>>) : rows \in RowListsUpTo(PlainRows, MaxRows) }

\* Lines of a page without tables: "1,00 2,50 2,50" starts with its first
\* number, "Rice 1,5 2,00 3,00 0,27" holds four, "ab 1,0" is short.
LineBare  == <<"1", ",", "0", "0", " ", "2", ",", "5", "0", " ", "2", ",", "5", "0">>
LineFour  == <<"R", "i", "c", "e", " ", "1", ",", "5", " ", "2", ",", "0", "0", " ",
               "3", ",", "0", "0", " ", "0", ",", "2", "7">>
LineShort == <<"a", "b", " ", "1", ",", "0">>

TextLines == {LineNoise, LineJuice, LineBare, LineFour, LineShort}

TextPages ==
    { Page(NoScalars, <<>>, FALSE, <<>>, lines) : lines \in RowListsUpTo(TextLines, MaxRows) }

InitStrategies ==
    /\ html \in KnockoutPages \cup TablePages \cup TextPages
    /\ strategies = <<>>
    /\ serbian_again = NoData
    /\ IdleConvert /\ IdleClock /\ IdleNumber /\ IdleItem /\ IdleEntry /\ IdleBot

SpecStrategies == InitStrategies /\ [][Next]_vars

-----------------------------------------------------------------------------
(* _parse_html_content called twice on one page *)

RepeatPages ==
    { Page(sp, specs, FALSE, <<>>, lines) :
        sp \in ScalarParts, specs \in {<<>>, <<RowMilk>>}, lines \in PageTexts }

InitRepeat ==
    /\ html \in RepeatPages
    /\ strategies = <<>>
    /\ serbian_again = NoData
    /\ IdleConvert /\ IdleClock /\ IdleNumber /\ IdleItem /\ IdleEntry /\ IdleBot

\* _parse_html_content(html_content)
ParseHtmlContentFirst ==
    /\ html # NoPage
    /\ serbian_data = NoData
    /\ serbian_data' = ParseHtmlContent(html, WallClock(now))
    /\ strategies' = StrategiesRun(html)
    /\ debug_file' = IF ParseHtmlContent(html, WallClock(now)).kind = "raised"
                     THEN debug_file ELSE WriteDebugFile(debug_file, 0, html)
    /\ UNCHANGED <<numberVars, itemVars, now, fiscal_data, fiscal_again, html,
                   serbian_again, calls, drivers, mode, botVars>>

\* the same call on the same html_content, later
ParseHtmlContentAgain ==
    /\ serbian_data # NoData
    /\ serbian_again = NoData
    /\ serbian_again' = ParseHtmlContent(html, WallClock(now))
    /\ debug_file' = IF ParseHtmlContent(html, WallClock(now)).kind = "raised"
                     THEN debug_file ELSE WriteDebugFile(debug_file, 0, html)
    /\ UNCHANGED <<numberVars, itemVars, now, convertVars, html, strategies,
                   calls, drivers, mode, botVars>>

NextRepeat == Tick \/ ParseHtmlContentFirst \/ ParseHtmlContentAgain

SpecRepeat == InitRepeat /\ [][NextRepeat]_vars

-----------------------------------------------------------------------------
(* Claims *)

ItemDiff == Abs(itemArgs.sum - itemArgs.quantity * itemArgs.price)

\* C2: constructing an Item is accepted when |sum - quantity * price| <= 5
\* (5 included) and rejected with a validation error when it is 6 or more; an
\* Item that exists satisfies the bound.
C2_ItemSumTolerance ==
    itemResult # NotRun =>
        /\ (ItemDiff <= 5 => itemResult.kind = "Item")
        /\ (ItemDiff >= 6 => itemResult = ValidationError("Item.validate_sum"))
        /\ (itemResult.kind = "Item" =>
                Abs(itemResult.sum - itemResult.quantity * itemResult.price) <= 5)

\* The boundary case: a difference of exactly 5 was accepted.
C2_Witness ==
    /\ itemResult # NotRun
    /\ itemResult.kind = "Item"
    /\ ItemDiff = 5
    /\ itemArgs.quantity = 3

\* The reference algorithm of the number normaliser, over a class of digits:
\* strip the characters outside digits, "-", ".", ","; remove every ".";
\* replace every "," by "."; parse as an exact decimal, zero when that fails.
ReferenceNumber(text, digits) ==
    LET Keep(c) == c \in digits \cup {"-", ".", ","}
        kept    == SelectSeq(text, Keep)
        NotDot(c) == c # "."
        undotted == SelectSeq(kept, NotDot)
        pointed == [i \in 1..Len(undotted) |->
                        IF undotted[i] = "," THEN "." ELSE undotted[i]]
    IN  IF DecimalAccepts(pointed) THEN DecimalValue(pointed) ELSE Zero

T_1_839_96 == <<"1", ".", "8", "3", "9", ",", "9", "6">>
T_0_50     == <<"0", ",", "5", "0">>
T_1_2_3_45 == <<"1", ".", "2", ".", "3", ",", "4", "5">>
T_1c2c3_45 == <<"1", ",", "2", ",", "3", ".", "4", "5">>

\* C3 as stated: for every input the parser returns the value of the reference
\* algorithm that keeps only the characters of [-0-9.,].
C3_Original ==
    numResult # NotRun => numResult = ReferenceNumber(numText, AsciiDigits)

\* C3 as amended: for every input the parser returns the value of the reference
\* algorithm that keeps every decimal digit (the ASCII digits and the other
\* Unicode decimal digits, read by their digit value), "-", "." and ",";
\* "1.839,96" gives 1839.96, "0,50" gives 0.50, "1.2.3,45" gives 123.45 and
\* "1,2,3.45" gives 0.
C3_MatchesReference ==
    numResult # NotRun =>
        /\ numResult = ReferenceNumber(numText, AsciiDigits \cup UnicodeDigits)
        /\ (numText = T_1_839_96 => numResult = Dec(183996, 2))
        /\ (numText = T_0_50 => numResult = Dec(50, 2))
        /\ (numText = T_1_2_3_45 => numResult = Dec(12345, 2))
        /\ (numText = T_1c2c3_45 => numResult = Zero)

\* The canonical text "1.839,96" was parsed to 1839.96.
C3_Witness == numText = T_1_839_96 /\ numResult = Dec(183996, 2)

\* What the parser hands to the Decimal constructor.
CleanedText(text) == ReSubNonNumeric(CleanSeparators(Strip(text)))

\* C4: _parse_serbian_number is total: it always returns a Decimal, never an
\* exception, and returns 0 whenever the text cannot be parsed (empty, only
\* whitespace, only separators, non-numeric, or refused by Decimal).
C4_Total ==
    numResult # NotRun =>
        /\ numResult.kind = "Decimal"
        /\ (~ DecimalAccepts(CleanedText(numText)) => numResult = Zero)
        /\ (numText \in {<<>>, <<" ", " ", " ">>, <<"-">>, <<".">>, <<",">>,
                         <<"a", "b", "c">>} => numResult = Zero)

\* A text the Decimal constructor refuses ("1-5") came back as 0.
C4_Witness == numText = <<"1", "-", "5">> /\ numResult = Zero

-----------------------------------------------------------------------------
(* Claims about convert() *)

ConvertResults == {fiscal_data, fiscal_again} \ {NotRun}

Documents == {r \in ConvertResults : r.kind = "FiscalData"}

RawItems == serbian_data.items

\* The minor units convert() computes for the raw items and the total.
RawCents(i) == FloatTimes100ToInt(RawItems[i].sum)
RawCentsTotal == FloatTimes100ToInt(serbian_data.total_amount)

RECURSIVE RawCentsSum(_)
RawCentsSum(n) == IF n = 0 THEN 0 ELSE RawCents(n) + RawCentsSum(n - 1)

RawItemAccepted(i) ==
    Abs(RawCents(i) - FloatToInt(RawItems[i].quantity)
                      * FloatTimes100ToInt(RawItems[i].price)) <= 5

\* C1: every document convert() returns has |totalSum - sum of item sums| <= 5;
\* when the converted values violate this, building the Receipt raises, no
\* document is returned, and neither totalSum nor an item sum is adjusted.
C1_TotalReconciled ==
    /\ \A r \in Documents :
          /\ Abs(r.receipt.totalSum - SumOfSums(r.receipt.items)) <= 5
          /\ r.receipt.totalSum = RawCentsTotal
          /\ RawItems # <<>> =>
                /\ Len(r.receipt.items) = Len(RawItems)
                /\ \A i \in 1..Len(RawItems) : r.receipt.items[i].sum = RawCents(i)
    /\ \A r \in ConvertResults :
          ( /\ RawItems # <<>>
            /\ \A i \in 1..Len(RawItems) : RawItemAccepted(i)
            /\ Abs(RawCentsTotal - RawCentsSum(Len(RawItems))) > 5 )
          => r = ValidationError("Receipt.validate_total_sum")

\* One item of 1.00 against a total of 1.06: the Receipt was refused.
C1_Witness ==
    /\ Len(RawItems) = 1
    /\ RawItems[1].sum = Dec(100, 2)
    /\ serbian_data.total_amount = Dec(106, 2)
    /\ fiscal_data = ValidationError("Receipt.validate_total_sum")

\* amount * 100 rounded half-up, in exact decimal arithmetic.
HalfUpTimes100(d) ==
    IF d.e <= 2 THEN d.m * Pow10(2 - d.e)
    ELSE LET unit == Pow10(d.e - 2)
             mag  == (2 * Abs(d.m) + unit) \div (2 * unit)
         IN  IF d.m < 0 THEN -mag ELSE mag

\* C5: convert() turns every amount (item price, item sum, receipt total) into
\* amount * 100 rounded half-up; an amount with at most two decimal places
\* converts to exactly amount * 100.
C5_ExactMinorUnits ==
    \A r \in Documents :
        /\ r.receipt.totalSum = HalfUpTimes100(serbian_data.total_amount)
        /\ RawItems # <<>> =>
              \A i \in 1..Len(RawItems) :
                  /\ r.receipt.items[i].price = HalfUpTimes100(RawItems[i].price)
                  /\ r.receipt.items[i].sum = HalfUpTimes100(RawItems[i].sum)

\* C6: two items (1 x 79.99, 1 x 1599.99) with total 1679.98 convert to a
\* document with totalSum 167998 and item sums 7999 and 159999, in that order.
C6_TwoItemScenario ==
    ( /\ fiscal_data # NotRun
      /\ Len(RawItems) = 2
      /\ RawItems[1].quantity = Dec(1, 0) /\ RawItems[1].price = Dec(7999, 2)
      /\ RawItems[1].sum = Dec(7999, 2)
      /\ RawItems[2].quantity = Dec(1, 0) /\ RawItems[2].price = Dec(159999, 2)
      /\ RawItems[2].sum = Dec(159999, 2)
      /\ serbian_data.total_amount = Dec(167998, 2) )
    => /\ fiscal_data.kind = "FiscalData"
       /\ fiscal_data.receipt.totalSum = 167998
       /\ Len(fiscal_data.receipt.items) = 2
       /\ fiscal_data.receipt.items[1].sum = 7999
       /\ fiscal_data.receipt.items[2].sum = 159999

\* C7: without raw items convert() succeeds with exactly one placeholder item:
\* quantity 1, price = sum = the document's total in minor units (10000 for a
\* total of 100.00), VAT category 2, so the item sums add up to totalSum; with
\* raw items the document holds one item per raw item and no placeholder.
C7_Placeholder ==
    \A r \in ConvertResults :
        /\ RawItems = <<>> =>
              /\ r.kind = "FiscalData"
              /\ Len(r.receipt.items) = 1
              /\ r.receipt.items[1].quantity = 1
              /\ r.receipt.items[1].price = r.receipt.totalSum
              /\ r.receipt.items[1].sum = r.receipt.totalSum
              /\ r.receipt.items[1].nds = 2
              /\ SumOfSums(r.receipt.items) = r.receipt.totalSum
              /\ serbian_data.total_amount = Dec(10000, 2) =>
                    r.receipt.items[1].sum = 10000
        /\ (RawItems # <<>> /\ r.kind = "FiscalData") =>
              /\ Len(r.receipt.items) = Len(RawItems)
              /\ \A i \in 1..Len(RawItems) :
                    r.receipt.items[i].name = RawItems[i].name

\* No raw item and a total of 100.00: one placeholder of 10000.
C7_Witness ==
    /\ RawItems = <<>>
    /\ serbian_data.total_amount = Dec(10000, 2)
    /\ fiscal_data.kind = "FiscalData"
    /\ fiscal_data.receipt.items[1].sum = 10000

WithoutId(r) == [r EXCEPT !.id = "any"]

\* C9: two convert() calls on the same SerbianFiscalData agree in everything
\* but the random id (totalSum, items, VAT buckets, dateTime, createdAt), and
\* dateTime and createdAt are the source document's timestamp, formatted,
\* whatever the wall clock shows.
C9_ConvertDeterministic ==
    fiscal_again # NotRun =>
        /\ fiscal_again.kind = fiscal_data.kind
        /\ fiscal_data.kind = "FiscalData" =>
              /\ WithoutId(fiscal_again) = WithoutId(fiscal_data)
              /\ \A r \in Documents :
                    /\ r.receipt.dateTime =
                          Strftime(serbian_data.sdc_date_time, "%Y-%m-%dT%H:%M:%S")
                    /\ r.created_at =
                          Strftime(serbian_data.sdc_date_time, "%Y-%m-%dT%H:%M:%S+00:00")

\* Two documents with different ids and VAT buckets, the clock having moved.
C9_Witness ==
    /\ fiscal_data.kind = "FiscalData"
    /\ fiscal_again.kind = "FiscalData"
    /\ fiscal_data.id # fiscal_again.id
    /\ fiscal_data.receipt.amountsReceiptNds # None
    /\ Len(RawItems) = 2
    /\ now > 0

-----------------------------------------------------------------------------
(* Claims about _parse_html_content *)

\* A page with nothing to extract, as html.parser gives for "" and for
\* "<html><body><div incomplete": no element with a known id, no table row, no
\* text line holding three numbers.
NothingToExtract(page) ==
    /\ \A id \in ElementIds : ~ page.elements[id].present
    /\ ~ page.sdcDateTimeLabel.present
    /\ page.specs = <<>> /\ page.rows = <<>>
    /\ \A i \in 1..Len(page.lines) : Len(FindNumbers(page.lines[i], 1)) < 3

\* A page whose counter element holds no integer: int() raises while parsing.
UnreadableCounter(page) ==
    \/ CounterRaises(page.elements.transactionTypeCounterLabel)
    \/ CounterRaises(page.elements.totalCounterLabel)

Malformed(page) == NothingToExtract(page) \/ UnreadableCounter(page)

StringFields ==
    {"tin", "shop_name", "shop_address", "city", "administrative_unit",
     "invoice_number", "invoice_counter_extension", "signed_by", "requested_by",
     "invoice_type", "transaction_type", "status"}

DegradedReceipt ==
    /\ serbian_data.kind = "SerbianFiscalData"
    /\ \A f \in StringFields : serbian_data[f] = <<>>
    /\ serbian_data.total_amount = Zero
    /\ serbian_data.transaction_type_counter = 0
    /\ serbian_data.total_counter = 0
    /\ serbian_data.buyer_id = None
    /\ serbian_data.items = <<>>

PlaceholderConversion ==
    fiscal_data # NotRun =>
        /\ fiscal_data.kind = "FiscalData"
        /\ Len(fiscal_data.receipt.items) = 1
        /\ fiscal_data.receipt.items[1].sum = 0
        /\ fiscal_data.receipt.totalSum = 0

FromKnockout == ExtractItemsByKnockoutBinding(html)
FromTable    == TableLoop(AllRows(html))
FromText     == TextLoop(html.lines)

Ran(name) == \E i \in 1..Len(strategies) : strategies[i] = name

\* C10: whenever _extract_items_from_table ran, the strategies run in the
\* order Knockout binding, table rows, free text; a later one runs only when every earlier one yielded no item; the list
\* returned is that of the last strategy run, never a mixture; a page with item
\* rows in the Specifications binding and a different number of other table
\* rows gives the binding's items only.
C10_StrategyChain ==
    (html # NoPage /\ serbian_data # NoData /\ strategies # <<>>) =>
        /\ strategies \in { <<"knockout">>, <<"knockout", "table">>,
                            <<"knockout", "table", "text">> }
        /\ Ran("table") => FromKnockout = <<>>
        /\ Ran("text") => (FromKnockout = <<>> /\ FromTable = <<>>)
        /\ ~ Ran("table") => (FromKnockout # <<>> /\ serbian_data.items = FromKnockout)
        /\ (Ran("table") /\ ~ Ran("text")) =>
              (FromTable # <<>> /\ serbian_data.items = FromTable)
        /\ Ran("text") => serbian_data.items = FromText
        /\ (FromKnockout # <<>> /\ Len(html.rows) # Len(html.specs)) =>
              serbian_data.items = FromKnockout

\* One bound item row, two item rows in another table, text with an item
\* line: only the bound row's item came back.
C10_Witness ==
    /\ html # NoPage
    /\ serbian_data # NoData
    /\ Len(html.specs) = 1
    /\ html.rows = <<RowTea, RowTea>>
    /\ FromText # <<>>
    /\ Len(serbian_data.items) = 1
    /\ serbian_data.items = FromKnockout
    /\ strategies = <<"knockout">>

-----------------------------------------------------------------------------
(* Claims about parse_serbian_fiscal_url *)

Done(i) == calls[i].pc = "done"

\* The drivers invocation i created.
DriversOf(i) == {d \in 1..Len(drivers) : drivers[d].owner = i}

\* C11: when an invocation has returned or raised, every driver it created
\* has been quit exactly once.
C11_DriverQuitOnce ==
    \A i \in DOMAIN calls :
        Done(i) => \A d \in DriversOf(i) : drivers[d].quits = 1

\* C12: every driver is used by the invocation that created it and by no
\* other, under every interleaving of the invocations, also after its creator
\* has ended; the driver an invocation holds is one it created.
C12_DriversNotShared ==
    /\ \A d \in 1..Len(drivers) : drivers[d].users \subseteq {drivers[d].owner}
    /\ \A i \in DOMAIN calls :
          calls[i].driver # 0 => calls[i].driver \in DriversOf(i)

\* Two invocations are inside parse_url at once, each having driven its own
\* browser, while a third driver exists because one of them reconnected.
C12_Witness ==
    /\ mode = "concurrent"
    /\ \E i, j \in DOMAIN calls :
          /\ i # j
          /\ calls[i].pc = "read" /\ calls[j].pc = "read"
          /\ calls[i].driver # calls[j].driver
          /\ drivers[calls[i].driver].users = {i}
          /\ drivers[calls[j].driver].users = {j}
          /\ Cardinality(DriversOf(i)) = 2

\* Navigation to the URL failed, or the page did not become ready in time.
LoadFailed(i) ==
    \/ calls[i].get \in {"WebDriverException", "TimeoutException"}
    \/ calls[i].wait = "TimeoutException"

\* C13: an invocation whose navigation failed or whose page did not become
\* ready within the timeout ends in an exception delivered to the caller, and
\* returns no document.
C13_LoadFailureIsFatal ==
    \A i \in DOMAIN calls :
        (Done(i) /\ LoadFailed(i)) => calls[i].outcome.kind = "raised"

\* parse_url of invocation i has returned or raised.
ParseUrlEnded(i) == calls[i].pc \in {"convert", "exit", "done"} /\ calls[i].check # "not_run"

\* It raised: no SerbianFiscalData came back.
ParseUrlRaised(i) == ParseUrlEnded(i) /\ calls[i].data = NoData

\* Empty strings, total 0, counters 0, no buyer id, no items.
IsEmptyData(data) ==
    /\ data.kind = "SerbianFiscalData"
    /\ \A f \in StringFields : data[f] = <<>>
    /\ data.total_amount = Zero
    /\ data.transaction_type_counter = 0
    /\ data.total_counter = 0
    /\ data.buyer_id = None
    /\ data.items = <<>>

\* The driver check, driver.get, the wait step or the HTML parsing threw.
SomeStepThrew(i) ==
    \/ calls[i].check = "raises"
    \/ calls[i].get \in {"WebDriverException", "TimeoutException"}
    \/ calls[i].wait = "TimeoutException"
    \/ calls[i].parse = "raised"

\* C14 as stated: parse_url never raises, and when the driver check,
\* driver.get, the wait step or the HTML parsing throws it returns the empty
\* SerbianFiscalData.
C14_Original ==
    \A i \in DOMAIN calls :
        ParseUrlEnded(i) =>
            /\ ~ ParseUrlRaised(i)
            /\ SomeStepThrew(i) => IsEmptyData(calls[i].data)

\* driver.get, the read of page_source or the HTML parsing threw.
AbsorbedByExcept(i) ==
    \/ calls[i].get \in {"WebDriverException", "TimeoutException"}
    \/ calls[i].read = "raised"
    \/ calls[i].parse = "raised"

\* C14, amended: parse_url raises only out of its driver check, when the
\* driver is not connectable (or the check throws) and _setup_driver fails
\* too; otherwise it returns a SerbianFiscalData, which is the empty one
\* whenever driver.get, the read of page_source or the HTML parsing threw, and
\* the parse of the page read in every other case, also after a repaired
\* driver check and after a wait step that timed out.
C14_ParseUrlAbsorbs ==
    \A i \in DOMAIN calls :
        ParseUrlEnded(i) =>
            /\ ParseUrlRaised(i) =>
                  /\ calls[i].check \in {"not_connectable", "raises"}
                  /\ calls[i].get = "not_run"
                  /\ calls[i].outcome = Raised("WebDriverException", "parse_url")
            /\ (~ ParseUrlRaised(i) /\ AbsorbedByExcept(i)) => IsEmptyData(calls[i].data)
            /\ (~ ParseUrlRaised(i) /\ ~ AbsorbedByExcept(i)) =>
                  calls[i].data = ParseHtmlContent(calls[i].page, WallClock(now))

\* driver.get ran into the page load timeout and parse_url returned the
\* empty data.
C14_Witness ==
    \E i \in DOMAIN calls :
        /\ ParseUrlEnded(i)
        /\ calls[i].get = "TimeoutException"
        /\ IsEmptyData(calls[i].data)

Returned(i) == Done(i) /\ calls[i].outcome.kind = "returned"

\* C15: a call that returns gives a list of exactly one document whose keys
\* are _id, createdAt and ticket, with the receipt at ticket.document.receipt
\* holding its items, its totals and its VAT buckets (None when there is no
\* bucket).
C15_DocumentShape ==
    \A i \in DOMAIN calls :
        Returned(i) =>
            LET value == calls[i].outcome.value IN
            /\ Len(value) = 1
            /\ DOMAIN value[1] = {"_id", "createdAt", "ticket"}
            /\ value[1]["_id"] \in RandomIds
            /\ value[1]["createdAt"] =
                  Strftime(calls[i].data.sdc_date_time, "%Y-%m-%dT%H:%M:%S+00:00")
            /\ DOMAIN value[1]["ticket"] = {"document"}
            /\ DOMAIN value[1]["ticket"].document = {"receipt"}
            /\ LET receipt == value[1]["ticket"].document.receipt IN
               /\ receipt.kind = "Receipt"
               /\ {"items", "totalSum", "ecashTotalSum", "amountsReceiptNds"}
                     \subseteq DOMAIN receipt
               /\ Len(receipt.items) >= 1
               /\ \A k \in 1..Len(receipt.items) : receipt.items[k].kind = "Item"
               /\ receipt.totalSum = FloatTimes100ToInt(calls[i].data.total_amount)
               /\ \/ receipt.amountsReceiptNds = None
                  \/ Len(receipt.amountsReceiptNds.amountsNds) >= 1

\* The page with one item of 2,00 at 20 % came back as one document with the
\* item and a VAT bucket.
C15_Witness ==
    \E i \in DOMAIN calls :
        /\ Returned(i)
        /\ calls[i].page = PageGood
        /\ LET receipt == calls[i].outcome.value[1]["ticket"].document.receipt IN
           /\ receipt.totalSum = 200
           /\ Len(receipt.items) = 1
           /\ receipt.amountsReceiptNds # None

-----------------------------------------------------------------------------
(* Claims about the tax labels *)

\* The only row of the page, and the text of its label cell.
TheRow == IF html.specs # <<>> THEN html.specs[1] ELSE html.rows[1]
HasLabel == Len(TheRow) > 6
TheLabel == IF HasLabel THEN TheRow[7] ELSE <<>>

\* text holds a followed by b, and text holds a.
HasPair(text, a, b) ==
    \E k \in 1..(Len(text) - 1) : text[k] = a /\ text[k + 1] = b
HasChar(text, a) == \E k \in 1..Len(text) : text[k] = a

\* The table of the claim.
CategoryOf(present, label) ==
    IF ~ present THEN 2
    ELSE IF HasChar(label, LabelDje) \/ HasPair(label, "2", "0") THEN 3
    ELSE IF HasChar(label, LabelIe) \/ HasPair(label, "1", "0") THEN 2
    ELSE IF HasChar(label, LabelA) THEN 1
    ELSE 2

\* C16: the item parsed from a row is kept whatever its label, and its VAT
\* category is the one the table gives for the label: 3 for 'Ђ' or '20', else
\* 2 for 'Е' or '10', else 1 for 'А', else (unrecognised or missing) 2.
C16_LabelToCategory ==
    (html # NoPage /\ strategies # <<>>) =>
        /\ Len(serbian_data.items) = 1
        /\ serbian_data.items[1].nds_type \in {1, 2, 3}
        /\ serbian_data.items[1].nds_type = CategoryOf(HasLabel, TheLabel)

\* A label holding both the 10 % and the 20 % mark came out as category 3,
\* and the item is there.
C16_Witness ==
    /\ html # NoPage
    /\ strategies = <<"knockout">>
    /\ HasLabel
    /\ HasChar(TheLabel, LabelIe) /\ HasChar(TheLabel, LabelDje)
    /\ Len(serbian_data.items) = 1
    /\ serbian_data.items[1].nds_type = 3

-----------------------------------------------------------------------------
(* Claims about the VAT buckets *)

\* Flat-rate VAT of one item: 10 % for category 2, 20 % for category 3, cut to
\* an integer.
FlatVat(item) ==
    IF item.nds = 2 THEN (IF item.sum >= 0 THEN item.sum \div 10 ELSE -((-item.sum) \div 10))
    ELSE IF item.nds = 3 THEN (IF item.sum >= 0 THEN item.sum \div 5 ELSE -((-item.sum) \div 5))
    ELSE 0

RECURSIVE VatOfCategory(_, _, _)
VatOfCategory(items, category, k) ==
    IF k > Len(items) THEN 0
    ELSE (IF items[k].nds = category THEN FlatVat(items[k]) ELSE 0)
         + VatOfCategory(items, category, k + 1)

\* The pairs (category, amount) with a positive amount.
ExpectedBuckets(items) ==
    {[nds |-> items[k].nds, ndsSum |-> VatOfCategory(items, items[k].nds, 1)] :
        k \in {n \in 1..Len(items) : VatOfCategory(items, items[n].nds, 1) > 0}}

\* C17: the VAT buckets of a converted receipt are exactly the pairs
\* (category, amount) with amount > 0, amount being the sum of the flat-rate
\* VAT of the items of the category; one bucket per category at most, none
\* with amount 0, and no container when there is no bucket.
C17_VatBuckets ==
    fiscal_data.kind = "FiscalData" =>
        LET receipt == fiscal_data.receipt
            buckets == receipt.amountsReceiptNds
            expected == ExpectedBuckets(receipt.items)
        IN  IF expected = {} THEN buckets = None
            ELSE /\ buckets # None
                 /\ {buckets.amountsNds[k] : k \in 1..Len(buckets.amountsNds)} = expected
                 /\ Len(buckets.amountsNds) = Cardinality(expected)
                 /\ \A k \in 1..Len(buckets.amountsNds) : buckets.amountsNds[k].ndsSum > 0

\* Two items of 20 % share one bucket that holds the VAT of both.
C17_Witness ==
    /\ fiscal_data.kind = "FiscalData"
    /\ Len(fiscal_data.receipt.items) = 2
    /\ \A k \in 1..2 : fiscal_data.receipt.items[k].nds = 3
    /\ fiscal_data.receipt.amountsReceiptNds # None
    /\ Len(fiscal_data.receipt.amountsReceiptNds.amountsNds) = 1
    /\ fiscal_data.receipt.amountsReceiptNds.amountsNds[1].ndsSum > 21

-----------------------------------------------------------------------------
(* Claims about the scalar extractors *)

\* C18: _parse_html_content never raises: a counter element whose text is no
\* integer yields 0 like a missing one, and the other fields keep what their
\* elements hold.
C18_ExtractorsNeverRaise ==
    \A i \in DOMAIN calls :
        calls[i].parse # "not_run" =>
            LET el == calls[i].page.elements IN
            /\ calls[i].parse = "ok"
            /\ CounterRaises(el.totalCounterLabel) => calls[i].data.total_counter = 0
            /\ calls[i].data.tin = ExtractText(el.tinLabel)
            /\ calls[i].data.shop_name = ExtractText(el.shopFullNameLabel)
            /\ calls[i].data.total_amount = ExtractTotalAmount(el.totalAmountLabel)

-----------------------------------------------------------------------------
(* Claims about _wait_for_data_loading *)

\* The driver invocation i loaded the page with: the last one it created.
LastDriver(i) == CHOOSE d \in DriversOf(i) : \A e \in DriversOf(i) : e <= d

Waited(i) == calls[i].wait # "not_run"

\* Never more than one click, and none on a panel that was expanded.
ClickedAtMostOnceAndNotExpanded(i) ==
    /\ \A d \in DriversOf(i) : drivers[d].clicks <= 1
    /\ drivers[LastDriver(i)].clicks = 1 => calls[i].panel = "collapsed"

\* C19: the toggle is clicked at most once and never on an expanded panel;
\* whenever the panel is present and collapsed and the toggle is clickable, it
\* is clicked exactly once.
C19_PanelToggledOnce ==
    \A i \in DOMAIN calls :
        Waited(i) =>
            /\ ClickedAtMostOnceAndNotExpanded(i)
            /\ (calls[i].panel = "collapsed" /\ calls[i].clickable) =>
                  drivers[LastDriver(i)].clicks = 1

\* C20: whenever parse_url has read driver.page_source, the spinner of that
\* driver had become invisible before.
C20_ReadAfterSpinnerGone ==
    \A i \in DOMAIN calls :
        calls[i].read # "not_run" => drivers[LastDriver(i)].spinner = "invisible"

(***************************************************************************)
(* The Telegram bot: handle_message and admin_message                      *)
(* (src/bot_tg/user_commands.py) over the tables of src/db.                *)
(*                                                                         *)
(* The application is built without concurrent_updates                     *)
(* (telegram_bot.py:388), so the dispatcher awaits one handler before it   *)
(* takes the next update: a handler starts only when none is running.      *)
(* Every helper of db/utils.py opens a session inside try/except and       *)
(* returns a default when the session raises; each query outcome is an     *)
(* input of the action that makes it.                                      *)
(***************************************************************************)
BotUsers == {1}
DailyLimit == 2
MaxDays == 2
MaxLogs == 4
MaxMessages == 2

Days == 1..MaxDays
Statuses == {"success", "error"}
MessageTypes == {"user_message", "blocked_user_message"}

\* outcomes of one database session
QueryOutcomes == IF db = "flaky" THEN {"ok", "raised"} ELSE {"ok"}

RowCount(table) ==
    LET RECURSIVE Total(_)
        Total(keys) == IF keys = {} THEN 0
                       ELSE LET k == CHOOSE x \in keys : TRUE
                            IN  table[k] + Total(keys \ {k})
    IN  Total(DOMAIN table)

AddRow(table, key) == [table EXCEPT ![key] = @ + 1]

\* is_user_active: a missing row and a failed session both count as active
IsUserActive(us, user_id, query) ==
    IF query = "raised" THEN TRUE
    ELSE IF us[user_id] = "absent" THEN TRUE
    ELSE us[user_id] = "active"

\* get_user_daily_requests_count: today's 'success' rows of the user, 0 on error
GetUserDailyRequestsCount(logs, day, user_id, query) ==
    IF query = "raised" THEN 0 ELSE logs[<<user_id, "success", day>>]

CheckDailyLimitInclusive(logs, day, user_id, query) ==
    LET current_count == GetUserDailyRequestsCount(logs, day, user_id, query)
    IN  [can_make_request |-> current_count <= DailyLimit,
         current_count    |-> current_count,
         limit            |-> DailyLimit,
         remaining        |-> IF DailyLimit - current_count > 0
                              THEN DailyLimit - current_count ELSE 0]

CheckDailyLimit(logs, day, user_id, query) ==
    LET current_count == GetUserDailyRequestsCount(logs, day, user_id, query)
    IN  [can_make_request |-> current_count < DailyLimit,
         current_count    |-> current_count,
         limit            |-> DailyLimit,
         remaining        |-> IF DailyLimit - current_count > 0
                              THEN DailyLimit - current_count ELSE 0]

\* has_sent_blocked_message: False when the session raises
HasSentBlockedMessage(messages, user_id, query) ==
    IF query = "raised" THEN FALSE
    ELSE messages[<<user_id, "blocked_user_message">>] > 0

\* log_user_request -> db_manager.add_request_log: the row, and the user's row
\* when it is missing; nothing when the session raises
AddRequestLog(logs, day, user_id, status, query) ==
    IF query = "raised" THEN logs ELSE AddRow(logs, <<user_id, status, day>>)

AddUser(us, user_id, query) ==
    IF query = "ok" /\ us[user_id] = "absent"
    THEN [us EXCEPT ![user_id] = "active"] ELSE us

\* log_message: one MessageLog row, nothing when the session raises
LogMessage(messages, user_id, message_type, query) ==
    IF query = "raised" THEN messages
    ELSE AddRow(messages, <<user_id, message_type>>)

NewHandler(name, user_id) ==
    [name |-> name, user_id |-> user_id, pc |-> "done", outcome |-> "none",
     count_query |-> "none", can_make_request |-> FALSE, current_count |-> 0]

NoHandler == NewHandler("none", 0)

Ended(h, outcome) == [h EXCEPT !.pc = "done", !.outcome = outcome]

Limited(h, query, limit_info) ==
    [h EXCEPT !.count_query = query,
              !.can_make_request = limit_info.can_make_request,
              !.current_count = limit_info.current_count]

\* handle_message up to the "processing" reply: the three early returns
HandleMessageCheck(user_id) ==
    /\ handler.pc = "done"
    /\ RowCount(request_logs) + 2 <= MaxLogs
    /\ \E active \in QueryOutcomes, url \in BOOLEAN, count \in QueryOutcomes :
         LET h == NewHandler("handle_message", user_id)
             limit_info == CheckDailyLimit(request_logs, today, user_id, count)
         IN  handler' =
               IF ~IsUserActive(users, user_id, active) THEN Ended(h, "blocked")
               ELSE IF ~url THEN Ended(h, "not_url")
               ELSE IF ~limit_info.can_make_request
                    THEN Ended(Limited(h, count, limit_info), "limit")
               ELSE [Limited(h, count, limit_info) EXCEPT !.pc = "parse"]
    /\ UNCHANGED <<request_logs, message_logs, users, sent, today, db>>
    /\ UNCHANGED <<numberVars, itemVars, now, convertVars, pageVars, entryVars>>

\* the try block: parse_serbian_fiscal_url, the 'success' row, the reply;
\* anything raised in it adds an 'error' row
HandleMessageParse ==
    /\ handler.pc = "parse"
    /\ \E result \in {"returned", "raised"}, write \in QueryOutcomes,
          delivered \in BOOLEAN, write_error \in QueryOutcomes :
         LET user_id == handler.user_id
             logged  == IF result = "returned"
                        THEN AddRequestLog(request_logs, today, user_id, "success", write)
                        ELSE request_logs
             failed  == result = "raised" \/ ~delivered
             us      == IF result = "returned" THEN AddUser(users, user_id, write)
                        ELSE users
         IN  /\ request_logs' =
                  IF failed THEN AddRequestLog(logged, today, user_id, "error", write_error)
                  ELSE logged
             /\ users' = IF failed THEN AddUser(us, user_id, write_error) ELSE us
             /\ handler' = Ended(handler, IF failed THEN "error" ELSE "success")
    /\ UNCHANGED <<message_logs, sent, today, db>>
    /\ UNCHANGED <<numberVars, itemVars, now, convertVars, pageVars, entryVars>>

\* admin_message; each query is drawn where the code makes it
AdminMessageSend(h) ==
    \E active_again \in QueryOutcomes, send \in {"ok", "raised"}, write \in QueryOutcomes :
      LET user_id == h.user_id
          is_blocked == ~IsUserActive(users, user_id, active_again)
          message_type == IF is_blocked THEN "blocked_user_message" ELSE "user_message"
      IN  IF send = "raised"
          THEN /\ handler' = Ended(h, "send_failed")
               /\ UNCHANGED <<sent, message_logs>>
          ELSE /\ handler' = Ended(h, "sent")
               /\ sent' = AddRow(sent, <<user_id, users[user_id] = "inactive">>)
               /\ message_logs' = LogMessage(message_logs, user_id, message_type, write)

AdminMessage(user_id) ==
    /\ handler.pc = "done"
    /\ RowCount(sent) < MaxMessages
    /\ \E active \in QueryOutcomes, check \in QueryOutcomes, args \in BOOLEAN :
         LET h == NewHandler("admin_message", user_id)
             limit_info == CheckDailyLimit(request_logs, today, user_id, check)
             refused ==
                 IF ~IsUserActive(users, user_id, active)
                 THEN HasSentBlockedMessage(message_logs, user_id, check)
                 ELSE ~limit_info.can_make_request
         IN  IF refused
             THEN /\ handler' = Ended(h, "refused")
                  /\ UNCHANGED <<sent, message_logs>>
             ELSE IF ~args
             THEN /\ handler' = Ended(h, "usage")
                  /\ UNCHANGED <<sent, message_logs>>
             ELSE AdminMessageSend(h)
    /\ UNCHANGED <<request_logs, users, today, db>>
    /\ UNCHANGED <<numberVars, itemVars, now, convertVars, pageVars, entryVars>>

\* set_user_active_status, behind /activate and /deactivate: only an
\* existing row changes
SetUserActiveStatus(user_id, is_active) ==
    /\ handler.pc = "done"
    /\ users[user_id] # "absent"
    /\ users[user_id] # (IF is_active THEN "active" ELSE "inactive")
    /\ users' = [users EXCEPT ![user_id] = IF is_active THEN "active" ELSE "inactive"]
    /\ UNCHANGED <<request_logs, message_logs, handler, sent, today, db>>
    /\ UNCHANGED <<numberVars, itemVars, now, convertVars, pageVars, entryVars>>

\* midnight: date.today() moves on
NextDay ==
    /\ today < MaxDays
    /\ today' = today + 1
    /\ UNCHANGED <<request_logs, message_logs, users, handler, sent, db>>
    /\ UNCHANGED <<numberVars, itemVars, now, convertVars, pageVars, entryVars>>

InitBot ==
    /\ request_logs = [k \in BotUsers \X Statuses \X Days |-> 0]
    /\ message_logs = [k \in BotUsers \X MessageTypes |-> 0]
    /\ users = [u \in BotUsers |-> "absent"]
    /\ handler = NoHandler
    /\ sent = [k \in BotUsers \X BOOLEAN |-> 0]
    /\ today = 1
    /\ db \in {"up", "flaky"}
    /\ IdleNumber /\ IdleItem /\ IdleClock /\ IdleConvert /\ IdlePage /\ IdleEntry

NextBot ==
    \/ \E user_id \in BotUsers : HandleMessageCheck(user_id)
    \/ HandleMessageParse
    \/ \E user_id \in BotUsers : AdminMessage(user_id)
    \/ \E user_id \in BotUsers, is_active \in BOOLEAN : SetUserActiveStatus(user_id, is_active)
    \/ NextDay

SpecBot == InitBot /\ [][NextBot]_vars

\* ---- claims about the bot ----

SuccessCount(user_id, day) == request_logs[<<user_id, "success", day>>]

C22_OneBlockedMessage ==
    \A user_id \in BotUsers : sent[<<user_id, TRUE>>] <= 1

-----------------------------------------------------------------------------
(* Claims about the Knockout strategy *)

\* The rows the strategy meets, in document order, and what the parse kept.
BoundRows == Flatten(KnockoutElements(html))

KnockoutReturned ==
    /\ html # NoPage
    /\ serbian_data # NoData
    /\ strategies = <<"knockout">>

Candidate(i) == Len(BoundRows[i]) >= 4 /\ CellText(BoundRows[i], 1) # <<>>

\* Row i is the first candidate with its key.
FirstOfKey(i) ==
    /\ Candidate(i)
    /\ \A j \in 1..(i - 1) :
          Candidate(j) => ItemKey(BoundRows[j]) # ItemKey(BoundRows[i])

FirstRows == {i \in 1..Len(BoundRows) : FirstOfKey(i)}

\* The k-th first occurrence, in document order.
KthFirstRow(k) ==
    CHOOSE i \in FirstRows : Cardinality({j \in FirstRows : j <= i}) = k

SameTriple(a, b) ==
    a.name = b.name /\ a.quantity = b.quantity /\ a.price = b.price

\* C23 as stated: the Knockout strategy returns no two items with the same
\* (name, quantity, price).
C23_Original ==
    KnockoutReturned =>
        \A i, j \in 1..Len(serbian_data.items) :
            i # j => ~ SameTriple(serbian_data.items[i], serbian_data.items[j])

\* C23: the Knockout strategy returns no two items with the same key, the
\* name with the texts str() gives for quantity and price: it returns the
\* items of the rows that are the first with their key, in document order,
\* and skips every later row with a key already met (a nested binding, or
\* equal values in the same text).
C23_FirstOfEachKey ==
    KnockoutReturned =>
        /\ Len(serbian_data.items) = Cardinality(FirstRows)
        /\ \A k \in 1..Len(serbian_data.items) :
              serbian_data.items[k] = ParseItemRow(BoundRows[KthFirstRow(k)])
        /\ \A i, j \in FirstRows :
              i # j => ItemKey(BoundRows[i]) # ItemKey(BoundRows[j])

\* Milk 3 and Milk 2 under a nested binding: four rows met, the two repeats
\* skipped, Milk 3 still first.
C23_Witness ==
    /\ KnockoutReturned
    /\ html.nested
    /\ html.specs = <<RowMilkThree, RowMilk>>
    /\ Len(BoundRows) = 4
    /\ Len(serbian_data.items) = 2
    /\ serbian_data.items[1] = ParseItemRow(RowMilkThree)

-----------------------------------------------------------------------------
(* Claims about the table strategy *)

\* _parse_serbian_number takes the text as a number: what is left after
\* cleaning is a decimal literal, no fallback to zero.
NormalizerAccepts(text) ==
    /\ text # <<>>
    /\ DecimalAccepts(ReSubNonNumeric(CleanSeparators(Strip(text))))

\* The conditions of the claim on one row.
IsLineItem(cells) ==
    /\ Len(cells) >= 4
    /\ CellText(cells, 1) # <<>>
    /\ \A i \in 2..4 : NormalizerAccepts(CellText(cells, i))

LineItems(rows) ==
    LET Parsed(i) == ParseItemRow(rows[i])
        Kept == {i \in 1..Len(rows) : IsLineItem(rows[i])}
        Kth(k) == CHOOSE i \in Kept : Cardinality({j \in Kept : j <= i}) = k
    IN  [k \in 1..Cardinality(Kept) |-> Parsed(Kth(k))]

TableRan ==
    /\ html # NoPage
    /\ serbian_data # NoData
    /\ Ran("table")

\* C24: in the table strategy a row is returned as a line item exactly when
\* it has at least 4 cells, a non-empty first cell and cells 2 to 4 that
\* _parse_serbian_number accepts as numbers; the other rows are skipped (the
\* text strategy runs only when no row qualifies).
C24_TableRowIsItem ==
    TableRan =>
        IF LineItems(AllRows(html)) # <<>>
        THEN /\ ~ Ran("text")
             /\ serbian_data.items = LineItems(AllRows(html))
        ELSE Ran("text")

-----------------------------------------------------------------------------
(* Claims about the text strategy *)

TextRan ==
    /\ html # NoPage
    /\ serbian_data # NoData
    /\ Ran("text")

\* The stripped lines of the page with at least 3 numbers, in order.
ItemLines ==
    LET lines == [i \in 1..Len(html.lines) |-> Strip(html.lines[i])]
        Kept == {i \in 1..Len(lines) : Len(FindNumbers(lines[i], 1)) >= 3}
        Kth(k) == CHOOSE i \in Kept : Cardinality({j \in Kept : j <= i}) = k
    IN  [k \in 1..Cardinality(Kept) |-> lines[Kth(k)]]

\* quantity, price and sum are the first three numbers, the category is 2
NumbersInOrder(item, line) ==
    LET numbers == FindNumbers(line, 1)
    IN  /\ item.quantity = ParseSerbianNumber(numbers[1])
        /\ item.price = ParseSerbianNumber(numbers[2])
        /\ item.sum = ParseSerbianNumber(numbers[3])
        /\ item.nds_type = 2

\* C25 as stated: the name is the text before the first digit, on every
\* line that yields an item.
C25_Original ==
    TextRan =>
        /\ Len(serbian_data.items) = Len(ItemLines)
        /\ \A k \in 1..Len(ItemLines) :
              /\ NumbersInOrder(serbian_data.items[k], ItemLines[k])
              /\ serbian_data.items[k].name = Strip(NonDigitPrefix(ItemLines[k]))

\* C25: the text strategy yields an item for a line exactly when the line
\* holds at least 3 numbers (digits, '.' or ',', digits); the first three are
\* quantity, price and sum, the category is 2, and the name is the text
\* before the first digit, or the default name when the line starts with a
\* digit.
C25_ItemPerLine ==
    TextRan =>
        /\ Len(serbian_data.items) = Len(ItemLines)
        /\ \A k \in 1..Len(ItemLines) :
              /\ NumbersInOrder(serbian_data.items[k], ItemLines[k])
              /\ serbian_data.items[k].name =
                    IF NonDigitPrefix(ItemLines[k]) = <<>> THEN DefaultItemName
                    ELSE Strip(NonDigitPrefix(ItemLines[k]))

\* The noise line with two numbers gave nothing, the line that starts with
\* a number gave an item under the default name.
C25_Witness ==
    /\ TextRan
    /\ html.lines = <<LineNoise, LineBare>>
    /\ Len(serbian_data.items) = 1
    /\ serbian_data.items[1].name = DefaultItemName
    /\ serbian_data.items[1].sum = Dec(250, 2)

-----------------------------------------------------------------------------
(* Claims about a load whose wait fails *)

\* A sub-step of _wait_for_data_loading failed in invocation i: the spinner
\* wait timed out, or the toggle was missing or not clickable.
SubStepFailed(i) ==
    \/ calls[i].wait = "TimeoutException"
    \/ calls[i].wait = "ok" /\ (calls[i].panel = "absent" \/ ~ calls[i].clickable)

PastRead(i) == calls[i].pc \in {"convert", "exit", "done"}

\* C26: when a sub-step of the page wait fails the load is not aborted,
\* parse_url still reads and parses the page source, and what it returns is
\* marked as degraded: it differs from what a load without failure returns
\* for the same page.
C26_DegradedLoadIsMarked ==
    \A i \in DOMAIN calls :
        (PastRead(i) /\ SubStepFailed(i)) =>
            /\ calls[i].read # "not_run"
            /\ calls[i].parse = "ok" =>
                  calls[i].data # ParseHtmlContent(calls[i].page, WallClock(now))

-----------------------------------------------------------------------------
(* Claims about repeating _parse_html_content *)

ParsedTwice == html # NoPage /\ serbian_data # NoData /\ serbian_again # NoData

\* The page carries an sdcDateTimeLabel in the format "%d.%m.%Y. %H:%M:%S".
HasStamp == html.sdcDateTimeLabel.present /\ html.sdcDateTimeLabel.wellformed

-----------------------------------------------------------------------------
(* Claims about state outside the browser session *)

\* C28: a parse invocation changes no state outside its own browser
\* session: no invocation writes a file, no browser session is used by an
\* invocation other than its owner, so no invocation can overwrite or
\* observe what another wrote.
C28_NoStateOutsideSession ==
    /\ debug_file.writers = {}
    /\ \A d \in DOMAIN drivers : drivers[d].users \subseteq {drivers[d].owner}

-----------------------------------------------------------------------------
(* Claims about the drivers of one FiscalParser *)

\* close() has returned for the parser of invocation i.
Closed(i) == calls[i].pc = "done" /\ calls[i].driver = 0

\* C29: once close() has returned, no driver that _setup_driver created for
\* the parser is still running, the one replaced by parse_url's reconnect
\* included.
C29_NoDriverLeftRunning ==
    \A i \in DOMAIN calls :
        Closed(i) => ~ \E d \in DriversOf(i) : drivers[d].quits = 0

-----------------------------------------------------------------------------
(* Claims about receipts with fractional quantities *)

\* d in units of 10^-n, for a Decimal with at most n decimals
Scaled(d, n) == d.m * Pow10(n - d.e)

\* sum = quantity * price to the cent: within half a cent of the product
\* (quantities with up to 3 decimals, prices and sums with up to 2).
SumIsProduct(raw) ==
    2 * Abs(Scaled(raw.sum, 5) - raw.quantity.m * raw.price.m
                                 * Pow10(5 - raw.quantity.e - raw.price.e)) <= 1000

RECURSIVE ExactSumOfSums(_)
ExactSumOfSums(raws) ==
    IF raws = <<>> THEN 0 ELSE Scaled(Head(raws).sum, 2) + ExactSumOfSums(Tail(raws))

\* The premise of the claim, in exact decimals.
ConsistentReceipt ==
    /\ serbian_data.kind = "SerbianFiscalData"
    /\ serbian_data.items # <<>>
    /\ \A i \in 1..Len(serbian_data.items) : SumIsProduct(serbian_data.items[i])
    /\ ExactSumOfSums(serbian_data.items) = Scaled(serbian_data.total_amount, 2)

\* C30: for every receipt whose items satisfy sum = quantity * price to the
\* cent and whose total is the exact sum of the item sums, convert succeeds
\* and returns one item per raw item in the same order, also when an item has
\* a non-integer quantity such as 1.245.
C30_ConsistentReceiptConverts ==
    (ConsistentReceipt /\ fiscal_data # NotRun) =>
        /\ fiscal_data.kind = "FiscalData"
        /\ Len(fiscal_data.receipt.items) = Len(serbian_data.items)
        /\ \A i \in 1..Len(serbian_data.items) :
              fiscal_data.receipt.items[i].name = serbian_data.items[i].name

====
